---------------------------- MODULE Spec2Model ----------------------------
(***************************************************************************)
(* Model of the report aggregator of the DemoBlaze test framework          *)
(* (utilities/test_reporter.py, class TestReporter).                       *)
(*                                                                         *)
(* The reports directory holds two input artifacts, test_results.json and  *)
(* junit.xml, and two outputs, comprehensive_test_report.json and          *)
(* test_execution_summary.html.  generate_comprehensive_report runs its    *)
(* sub-calls in the order of the dictionary literal at lines 37-45, then   *)
(* writes the JSON report, then renders and writes the HTML summary.       *)
(*                                                                         *)
(* Conventions of the model                                                *)
(*   - a JSON value is a record [t, n, s]: t is its type ("absent" for a   *)
(*     key that is missing, "null", "num", "str"), n its number, s its     *)
(*     string;                                                             *)
(*   - a string is a sequence of runs [c, n]: atom c repeated n times; an  *)
(*     atom is one character, or a substring the code handles as a unit   *)
(*     ("tests/", ".py", "::");                                            *)
(*   - durations are integers in milliseconds, pass rates integers in      *)
(*     hundredths of a percent, a float quotient is an exact fraction      *)
(*     [num, den] in lowest terms;                                         *)
(*   - a Python exception caught by a method's own try/except makes the    *)
(*     method return its except-branch value; an exception nothing         *)
(*     catches ends the call with raised = TRUE;                           *)
(*   - an output file is a sequence: empty when the file does not exist,   *)
(*     else its content; console holds the summary lines the callers       *)
(*     print, not the progress lines of the reporter itself.               *)
(***************************************************************************)
EXTENDS Integers, Sequences, FiniteSets, TLC

VARIABLES
    jsonFile,    \* reports/test_results.json as the test runner left it
    stdout,      \* the encoding of the console print() writes to
    junitFile,   \* reports/junit.xml as the test runner left it
    ci,          \* whether the CI environment variable is set
    pc,          \* position inside generate_comprehensive_report
    report,      \* the report dictionary under construction / returned
    outJson,     \* reports/comprehensive_test_report.json
    outHtml,     \* reports/test_execution_summary.html
    raised,      \* an exception left generate_comprehensive_report
    reads,       \* how often each input artifact was opened in this call
    disk,        \* whether each output file can be opened and written
    caller,      \* who called generate_comprehensive_report
    console,     \* the lines the caller has printed
    returned,    \* the reports the earlier calls of this session returned
    firefox      \* the call of BrowserFactory._create_firefox_browser

vars == <<jsonFile, junitFile, ci, pc, report, outJson, outHtml, raised, reads,
          disk, caller, console, returned, stdout, firefox>>

---------------------------------------------------------------------------
(* Bounds of the model.                                                    *)

MaxCount == 3
MaxTests == 3
MaxCalls == 3

---------------------------------------------------------------------------
(* Strings.                                                                *)

Run(c, n) == [c |-> c, n |-> n]
S(c) == <<Run(c, 1)>>
Rep(c, n) == <<Run(c, n)>>
EmptyStr == <<>>

RECURSIVE Norm(_)
\* canonical form: no empty run, no two adjacent runs of the same atom
Norm(s) ==
    IF Len(s) = 0 THEN <<>>
    ELSE IF s[1].n = 0 THEN Norm(Tail(s))
    ELSE LET rest == Norm(Tail(s))
         IN  IF Len(rest) > 0 /\ rest[1].c = s[1].c
             THEN <<Run(s[1].c, s[1].n + rest[1].n)>> \o Tail(rest)
             ELSE <<s[1]>> \o rest

Concat(a, b) == Norm(a \o b)

RECURSIVE StrLen(_)
\* len(s)
StrLen(s) == IF Len(s) = 0 THEN 0 ELSE s[1].n + StrLen(Tail(s))

RECURSIVE Prefix(_, _)
\* s[:k]
Prefix(s, k) ==
    IF k <= 0 \/ Len(s) = 0 THEN <<>>
    ELSE IF s[1].n >= k THEN <<Run(s[1].c, k)>>
    ELSE <<s[1]>> \o Prefix(Tail(s), k - s[1].n)

RECURSIVE Before(_, _)
\* s.split(sep)[0]: the part of s before the first occurrence of atom sep
Before(s, sep) ==
    IF Len(s) = 0 \/ s[1].c = sep THEN <<>>
    ELSE <<s[1]>> \o Before(Tail(s), sep)

\* sep in s
Contains(s, sep) == \E i \in 1..Len(s) : s[i].c = sep

\* s.replace(atom, ''): every occurrence is removed, wherever it stands
Replace(s, atom) == Norm(SelectSeq(s, LAMBDA r : r.c # atom))

---------------------------------------------------------------------------
(* JSON values.                                                            *)

Absent == [t |-> "absent", n |-> 0, s |-> <<>>]
Null == [t |-> "null", n |-> 0, s |-> <<>>]
Num(k) == [t |-> "num", n |-> k, s |-> <<>>]
Str(s) == [t |-> "str", n |-> 0, s |-> s]

\* dict.get(key, default)
Get(v, default) == IF v.t = "absent" THEN default ELSE v

IsNum(v) == v.t = "num"
IsStr(v) == v.t = "str"

---------------------------------------------------------------------------
(* Numbers.                                                                *)

\* round(num / den) for den > 0, ties to the even neighbour (Python's round)
RoundHalfEven(num, den) ==
    LET q == num \div den
        r == num % den
    IN  IF 2 * r < den THEN q
        ELSE IF 2 * r > den THEN q + 1
        ELSE IF q % 2 = 0 THEN q ELSE q + 1

RECURSIVE Gcd(_, _)
Gcd(a, b) == IF b = 0 THEN a ELSE Gcd(b, a % b)

Abs(a) == IF a < 0 THEN -a ELSE a

\* the float quotient num / den (den > 0) as a fraction in lowest terms
Frac(num, den) ==
    LET g == Gcd(Abs(num), den)
    IN  [num |-> num \div g, den |-> den \div g]

\* faulty variant: the pass rate is cut, not rounded
PassRate_truncated(passed, total) == (passed * 10000) \div total

\* round(passed / total * 100, 2) in hundredths of a percent
PassRate(passed, total) == RoundHalfEven(passed * 10000, total)

---------------------------------------------------------------------------
(* _parse_json_report (lines 82-111).                                      *)

\* the values the test_files comprehension needs: every entry of tests an
\* object whose nodeid, when present, is a string
TestFilesRaises(tests) ==
    \/ tests.t \notin {"absent", "list"}
    \/ \E i \in 1..Len(tests.items) :
          \/ ~tests.items[i].isObj
          \/ ~IsStr(Get(tests.items[i].nodeid, Str(EmptyStr)))

\* an exception inside the try block of _parse_json_report
ParseJsonRaises(f) ==
    \/ ~f.parses
    \/ ~f.isObj
    \/ f.summary.t \notin {"absent", "obj"}
    \/ ~IsNum(Get(f.summary.total, Num(0)))
    \/ /\ Get(f.summary.total, Num(0)).n > 0
       /\ ~IsNum(Get(f.summary.passed, Num(0)))
    \/ TestFilesRaises(f.tests)

TestFiles(tests) ==
    { Before(Get(tests.items[i].nodeid, Str(EmptyStr)).s, "::") :
        i \in 1..Len(tests.items) }

\* faulty variant: the error count is looked up under a key the summary lacks
ErrorKeyRead_errors(summary) == Absent

\* the key of the summary object that carries the error count
ErrorKeyRead(summary) == summary.error

\* ok = FALSE stands for the empty dictionary of the except branch
_parse_json_report(f) ==
    IF ParseJsonRaises(f)
    THEN [ok |-> FALSE]
    ELSE LET total == Get(f.summary.total, Num(0))
             passed == Get(f.summary.passed, Num(0))
         IN  [ok |-> TRUE,
              total_tests |-> total,
              passed |-> passed,
              failed |-> Get(f.summary.failed, Num(0)),
              skipped |-> Get(f.summary.skipped, Num(0)),
              errors |-> Get(ErrorKeyRead(f.summary), Num(0)),
              pass_rate |-> IF total.n > 0 THEN PassRate(passed.n, total.n) ELSE 0,
              execution_time |-> Get(f.duration, Num(0)),
              test_files |-> TestFiles(f.tests)]

---------------------------------------------------------------------------
(* _parse_junit_report (lines 113-145).                                    *)

\* int(attr) / float(attr) of an attribute that is not a numeral
JunitRaises(x) ==
    \/ ~x.parses
    \/ \E a \in {x.tests, x.failures, x.errors, x.skipped, x.time} :
          ~IsNum(Get(a, Num(0)))

\* faulty variant: a testsuite below a wrapper root is not looked up
HasTestsuite_root_only(x) == x.root = "testsuite"

\* root if root.tag == 'testsuite' else root.find('testsuite')
HasTestsuite(x) == x.root = "testsuite" \/ x.child

_parse_junit_report(x) ==
    IF JunitRaises(x) \/ ~HasTestsuite(x)
    THEN [ok |-> FALSE]
    ELSE LET total == Get(x.tests, Num(0)).n
             failures == Get(x.failures, Num(0)).n
             errors == Get(x.errors, Num(0)).n
             skipped == Get(x.skipped, Num(0)).n
             passed == total - failures - errors - skipped
         IN  [ok |-> TRUE,
              total_tests |-> Num(total),
              passed |-> Num(passed),
              failed |-> Num(failures),
              skipped |-> Num(skipped),
              errors |-> Num(errors),
              pass_rate |-> IF total > 0 THEN PassRate(passed, total) ELSE 0,
              execution_time |-> Get(x.time, Num(0)),
              test_files |-> {}]

---------------------------------------------------------------------------
(* _get_execution_summary (lines 57-80).                                   *)

ZeroSummary ==
    [total_tests |-> Num(0), passed |-> Num(0), failed |-> Num(0),
     skipped |-> Num(0), errors |-> Num(0), pass_rate |-> 0,
     execution_time |-> Num(0), test_files |-> {}]

\* summary.update(d)
Update(summary, d) ==
    IF d.ok
    THEN [total_tests |-> d.total_tests, passed |-> d.passed,
          failed |-> d.failed, skipped |-> d.skipped, errors |-> d.errors,
          pass_rate |-> d.pass_rate, execution_time |-> d.execution_time,
          test_files |-> d.test_files]
    ELSE summary

\* faulty variant: the JUnit file is preferred over the JSON file
_get_execution_summary_junit_first(json, junit) ==
    IF junit.exists THEN Update(ZeroSummary, _parse_junit_report(junit))
    ELSE IF json.exists THEN Update(ZeroSummary, _parse_json_report(json))
    ELSE ZeroSummary

_get_execution_summary(json, junit) ==
    IF json.exists THEN Update(ZeroSummary, _parse_json_report(json))
    ELSE IF junit.exists THEN Update(ZeroSummary, _parse_junit_report(junit))
    ELSE ZeroSummary

---------------------------------------------------------------------------
(* Reading test_results.json in the three analysis methods: each opens the *)
(* file and json.load()s it inside its own try block.                      *)

\* json.load(f) followed by data.get('tests', []) raises
TestsRaises(f) == ~f.parses \/ ~f.isObj \/ f.tests.t \notin {"absent", "list"}

\* data.get('tests', [])
\* faulty variant: once a report has been written the tests are not read
\* from the artifact again
TestsOf_outputs(f) == IF outJson = <<>> THEN f.tests.items ELSE <<>>

TestsOf(f) == f.tests.items

---------------------------------------------------------------------------
(* _analyze_test_results (lines 147-207).                                  *)

EmptyMetrics == [categories |-> <<>>, longest_tests |-> <<>>, shortest_tests |-> <<>>]

\* the dictionary created at lines 175-178; avg_duration is a fraction
NewCategory(name) ==
    [name |-> name, total |-> 0, passed |-> 0, failed |-> 0, skipped |-> 0,
     avg_duration |-> [num |-> 0, den |-> 1]]

CategoryKeys == {"total", "passed", "failed", "skipped", "avg_duration"}

\* test_file.replace('tests/', '').replace('.py', '') of nodeid.split('::')[0]
CategoryOf(nodeid) == Replace(Replace(Before(nodeid, "::"), "tests/"), ".py")

\* position of category name in the (insertion-ordered) dictionary, 0 if none
CategoryIndex(categories, name) ==
    IF \E i \in 1..Len(categories) : categories[i].name = name
    THEN CHOOSE i \in 1..Len(categories) : categories[i].name = name
    ELSE 0

\* categories[category][outcome] += 1 for a key the dictionary has
Bump(stats, key) ==
    IF key = "total" THEN [stats EXCEPT !.total = @ + 1]
    ELSE IF key = "passed" THEN [stats EXCEPT !.passed = @ + 1]
    ELSE IF key = "failed" THEN [stats EXCEPT !.failed = @ + 1]
    ELSE IF key = "skipped" THEN [stats EXCEPT !.skipped = @ + 1]
    ELSE [stats EXCEPT !.avg_duration = Frac(@.num + @.den, @.den)]

\* the outcome is a one-atom string naming a key of the category dictionary
OutcomeKeyOk(outcome) ==
    /\ IsStr(outcome)
    /\ Len(outcome.s) = 1
    /\ outcome.s[1].n = 1
    /\ outcome.s[1].c \in CategoryKeys

\* one iteration of the loop at lines 164-188; acc = [raised, categories,
\* test_durations]
CategorizeStep(acc, test) ==
    IF ~test.isObj THEN [acc EXCEPT !.raised = TRUE]
    ELSE
    LET nodeid == Get(test.nodeid, Str(EmptyStr))
        duration == Get(test.duration, Num(0))
        outcome == Get(test.outcome, Str(S("unknown")))
    IN  IF ~IsStr(nodeid) THEN [acc EXCEPT !.raised = TRUE]
        ELSE IF ~Contains(nodeid.s, "::") THEN acc
        ELSE
        LET category == CategoryOf(nodeid.s)
            cats1 == IF CategoryIndex(acc.categories, category) = 0
                     THEN Append(acc.categories, NewCategory(category))
                     ELSE acc.categories
            k == CategoryIndex(cats1, category)
            cats2 == [cats1 EXCEPT ![k] = Bump(@, "total")]
        IN  IF ~OutcomeKeyOk(outcome) THEN [acc EXCEPT !.raised = TRUE]
            ELSE IF test.keywords.t \notin {"absent", "obj"}
            THEN [acc EXCEPT !.raised = TRUE]
            ELSE [raised |-> FALSE,
                  categories |-> [cats2 EXCEPT ![k] = Bump(@, outcome.s[1].c)],
                  test_durations |-> Append(acc.test_durations,
                      [name |-> Get(test.keywords.test, nodeid),
                       duration |-> duration,
                       category |-> category,
                       outcome |-> outcome.s[1].c])]

RECURSIVE CategorizeLoop(_, _)
CategorizeLoop(acc, tests) ==
    IF Len(tests) = 0 \/ acc.raised THEN acc
    ELSE CategorizeLoop(CategorizeStep(acc, tests[1]), Tail(tests))

RECURSIVE SumDurations(_)
\* sum(t["duration"] for t in ts), for numeric durations
SumDurations(ts) ==
    IF Len(ts) = 0 THEN 0 ELSE ts[1].duration.n + SumDurations(Tail(ts))

\* faulty variant: the mean is taken over the tests of every category
AvgDuration_all(test_durations, category) ==
    Frac(SumDurations(test_durations), Len(test_durations))

\* lines 191-194: the mean over the entries of test_durations of a category
AvgDuration(test_durations, category) ==
    LET category_tests == SelectSeq(test_durations, LAMBDA t : t.category = category)
    IN  Frac(SumDurations(category_tests), Len(category_tests))

RECURSIVE InsertDesc(_, _)
\* x placed after every element whose duration is >= its own
InsertDesc(sorted, x) ==
    IF Len(sorted) = 0 THEN <<x>>
    ELSE IF sorted[1].duration.n >= x.duration.n
    THEN <<sorted[1]>> \o InsertDesc(Tail(sorted), x)
    ELSE <<x>> \o sorted

RECURSIVE SortDesc(_, _)
\* list.sort(key=duration, reverse=True): stable, equal keys keep their order
SortDesc(done, rest) ==
    IF Len(rest) = 0 THEN done
    ELSE SortDesc(InsertDesc(done, rest[1]), Tail(rest))

\* xs[:k] and xs[-k:]
FirstN(xs, k) == SubSeq(xs, 1, IF Len(xs) < k THEN Len(xs) ELSE k)
LastN(xs, k) == SubSeq(xs, IF Len(xs) < k THEN 1 ELSE Len(xs) - k + 1, Len(xs))

TopN == 5

_analyze_test_results(f) ==
    IF ~f.exists \/ TestsRaises(f) THEN EmptyMetrics
    ELSE
    LET acc == CategorizeLoop(
                   [raised |-> FALSE, categories |-> <<>>, test_durations |-> <<>>],
                   TestsOf(f))
    IN  IF acc.raised THEN EmptyMetrics
        ELSE IF \E i \in 1..Len(acc.test_durations) :
                    ~IsNum(acc.test_durations[i].duration)
        THEN EmptyMetrics
        ELSE
        LET categories ==
                [i \in 1..Len(acc.categories) |->
                    [acc.categories[i] EXCEPT !.avg_duration =
                        AvgDuration(acc.test_durations, acc.categories[i].name)]]
            sorted == SortDesc(<<>>, acc.test_durations)
        IN  [categories |-> categories,
             longest_tests |-> FirstN(sorted, TopN),
             shortest_tests |-> LastN(sorted, TopN)]

---------------------------------------------------------------------------
(* _get_performance_metrics (lines 218-245).                               *)

NoPerformance ==
    [present |-> FALSE, n |-> 0,
     avg_test_duration |-> [num |-> 0, den |-> 1],
     max_test_duration |-> 0, min_test_duration |-> 0,
     total_execution_time |-> 0,
     tests_per_minute |-> [num |-> 0, den |-> 1]]

\* [test.get('duration', 0) for test in tests] as a sequence of JSON values
Durations(tests) == [i \in 1..Len(tests) |-> Get(tests[i].duration, Num(0))]

RECURSIVE SumSeq(_)
SumSeq(ds) == IF Len(ds) = 0 THEN 0 ELSE ds[1].n + SumSeq(Tail(ds))

MaxSeq(ds) == CHOOSE m \in {ds[i].n : i \in 1..Len(ds)} :
                  \A i \in 1..Len(ds) : ds[i].n <= m
MinSeq(ds) == CHOOSE m \in {ds[i].n : i \in 1..Len(ds)} :
                  \A i \in 1..Len(ds) : ds[i].n >= m

_get_performance_metrics(f) ==
    IF ~f.exists \/ TestsRaises(f) THEN NoPerformance
    ELSE IF \E i \in 1..Len(TestsOf(f)) : ~TestsOf(f)[i].isObj THEN NoPerformance
    ELSE
    LET durations == Durations(TestsOf(f))
        n == Len(durations)
    IN  IF n = 0 THEN NoPerformance
        ELSE IF \E i \in 1..n : ~IsNum(durations[i]) THEN NoPerformance
        ELSE
        LET total == SumSeq(durations)
        IN  [present |-> TRUE, n |-> n,
             avg_test_duration |-> Frac(total, n),
             max_test_duration |-> MaxSeq(durations),
             min_test_duration |-> MinSeq(durations),
             total_execution_time |-> total,
             tests_per_minute |-> IF total > 0 THEN Frac(n * 60000, total)
                                  ELSE [num |-> 0, den |-> 1]]

---------------------------------------------------------------------------
(* _analyze_failures (lines 247-297).                                      *)

NoFailures == [failed_tests |-> <<>>, common_errors |-> <<>>]

MessageLimit == 200
KeyLimit == 100
TopErrors == 5

UnknownError == S("Unknown error")
Ellipsis == Rep(".", 3)

\* faulty variant: under CI no test counts as failed
IsFailed_ci(test) == ~ci /\ test.outcome = Str(S("failed"))

\* line 259
IsFailed(test) == test.outcome = Str(S("failed"))

\* the test carries an error text: 'longrepr' in test.get('call', {})
HasLongrepr(test) == test.call.t = "obj" /\ test.call.longrepr.t # "absent"

\* lines 276-283 raise: 'in' on a call that is no container, len() or
\* split() on a longrepr that is no string
FailureRaises(test) ==
    \/ test.call.t \notin {"absent", "obj"}
    \/ HasLongrepr(test) /\ ~IsStr(test.call.longrepr)

\* faulty variant: the conditional binds tighter than the concatenation
ErrorMessage_inner(error_msg) ==
    Concat(Prefix(error_msg, MessageLimit),
           IF StrLen(error_msg) > MessageLimit THEN Ellipsis ELSE error_msg)

\* line 279: (error_msg[:200] + "...") if len(error_msg) > 200 else error_msg
ErrorMessage(error_msg) ==
    IF StrLen(error_msg) > MessageLimit
    THEN Concat(Prefix(error_msg, MessageLimit), Ellipsis)
    ELSE error_msg

\* line 282
ErrorKey(error_msg) ==
    IF StrLen(error_msg) > 0
    THEN Prefix(Before(error_msg, "\n"), KeyLimit)
    ELSE UnknownError

\* error_patterns[key] = error_patterns.get(key, 0) + 1 on an ordered dict
CountPattern(patterns, key) ==
    IF \E i \in 1..Len(patterns) : patterns[i].error = key
    THEN [i \in 1..Len(patterns) |->
            IF patterns[i].error = key
            THEN [patterns[i] EXCEPT !.count = @ + 1]
            ELSE patterns[i]]
    ELSE Append(patterns, [error |-> key, count |-> 1])

\* one iteration of the loop at lines 268-285; acc = [failed_tests, patterns]
FailureStep(acc, test) ==
    LET error_message == IF HasLongrepr(test)
                         THEN ErrorMessage(test.call.longrepr.s)
                         ELSE EmptyStr
        test_info == [name |-> Get(test.nodeid, Str(EmptyStr)),
                      duration |-> Get(test.duration, Num(0)),
                      error_message |-> error_message]
    IN  [failed_tests |-> Append(acc.failed_tests, test_info),
         patterns |-> IF HasLongrepr(test)
                      THEN CountPattern(acc.patterns, ErrorKey(test.call.longrepr.s))
                      ELSE acc.patterns]

RECURSIVE FailureLoop(_, _)
FailureLoop(acc, tests) ==
    IF Len(tests) = 0 THEN acc
    ELSE FailureLoop(FailureStep(acc, tests[1]), Tail(tests))

RECURSIVE InsertByCount(_, _)
InsertByCount(sorted, x) ==
    IF Len(sorted) = 0 THEN <<x>>
    ELSE IF sorted[1].count >= x.count
    THEN <<sorted[1]>> \o InsertByCount(Tail(sorted), x)
    ELSE <<x>> \o sorted

\* faulty variant: the clusters keep their insertion order
SortByCount_unsorted(done, rest) == rest

RECURSIVE SortByCount(_, _)
\* sorted(error_patterns.items(), key=count, reverse=True): stable
SortByCount(done, rest) ==
    IF Len(rest) = 0 THEN done
    ELSE SortByCount(InsertByCount(done, rest[1]), Tail(rest))

_analyze_failures(f) ==
    IF ~f.exists \/ TestsRaises(f) THEN NoFailures
    ELSE IF \E i \in 1..Len(TestsOf(f)) : ~TestsOf(f)[i].isObj THEN NoFailures
    ELSE
    LET failed_tests == SelectSeq(TestsOf(f), IsFailed)
    IN  IF \E i \in 1..Len(failed_tests) : FailureRaises(failed_tests[i])
        THEN NoFailures
        ELSE
        LET acc == FailureLoop([failed_tests |-> <<>>, patterns |-> <<>>], failed_tests)
        IN  [failed_tests |-> acc.failed_tests,
             common_errors |-> FirstN(SortByCount(<<>>, acc.patterns), TopErrors)]

---------------------------------------------------------------------------
(* _get_framework_info (lines 299-307).                                    *)

_get_framework_info(ciSet) ==
    [framework |-> "Selenium + Pytest",
     environment |-> IF ciSet THEN "CI/CD" ELSE "Local"]

---------------------------------------------------------------------------
(* json.dump(report, f, indent=2, default=str) (lines 48-50).              *)

DigitChars == <<"0", "1", "2", "3", "4", "5", "6", "7", "8", "9">>

RECURSIVE Digits(_)
\* the decimal numeral of a natural number, one atom per digit
Digits(n) ==
    IF n < 10 THEN S(DigitChars[n + 1])
    ELSE Concat(Digits(n \div 10), S(DigitChars[(n % 10) + 1]))

\* the numeral of an integer, with its sign
Numeral(n) == IF n < 0 THEN Concat(S("-"), Digits(-n)) ELSE Digits(n)

\* faulty variant: every value goes through default=str and is written as a
\* quoted string
JsonLiteral_str(v) ==
    [kind |-> "string",
     text |-> IF v.t = "num" THEN Numeral(v.n)
              ELSE IF v.t = "str" THEN v.s ELSE S("None")]

\* the JSON literal a value is written as: a bare numeral, a quoted string
\* or null
JsonLiteral(v) ==
    IF v.t = "num" THEN [kind |-> "number", text |-> Numeral(v.n)]
    ELSE IF v.t = "str" THEN [kind |-> "string", text |-> v.s]
    ELSE [kind |-> "null", text |-> S("null")]

JsonDump(r) ==
    [execution_summary |->
        [total_tests |-> JsonLiteral(r.execution_summary.total_tests),
         passed |-> JsonLiteral(r.execution_summary.passed),
         failed |-> JsonLiteral(r.execution_summary.failed),
         skipped |-> JsonLiteral(r.execution_summary.skipped),
         errors |-> JsonLiteral(r.execution_summary.errors),
         pass_rate |-> JsonLiteral(Num(r.execution_summary.pass_rate)),
         execution_time |-> JsonLiteral(r.execution_summary.execution_time),
         test_files |-> r.execution_summary.test_files],
     test_metrics |-> r.test_metrics,
     performance_metrics |-> r.performance_metrics,
     failure_analysis |-> r.failure_analysis,
     framework_info |-> r.framework_info]

---------------------------------------------------------------------------
(* _generate_html_summary_report and its section helpers (lines 309-461).  *)

\* f"{x:.2f}" of a duration in milliseconds, in hundredths of a second
Fixed2(num, den) == RoundHalfEven(num, den * 10)

HtmlShown == 5

\* _generate_category_rows (lines 400-423); pass rate in tenths of a percent
_generate_category_rows(categories) ==
    IF Len(categories) = 0
    THEN [placeholder |-> "No category data available", rows |-> <<>>]
    ELSE [placeholder |-> "",
          rows |-> [i \in 1..Len(categories) |->
             [category |-> categories[i].name,
              total |-> categories[i].total,
              passed |-> categories[i].passed,
              failed |-> categories[i].failed,
              pass_rate |-> IF categories[i].total > 0
                            THEN RoundHalfEven(categories[i].passed * 1000,
                                               categories[i].total)
                            ELSE 0,
              avg_duration |-> Fixed2(categories[i].avg_duration.num,
                                      categories[i].avg_duration.den)]]]

\* faulty variant: an empty metrics dictionary renders an empty block
_generate_performance_section_blank(metrics) ==
    [placeholder |-> "",
     avg_test_duration |-> 0, tests_per_minute |-> 0, max_test_duration |-> 0]

\* _generate_performance_section (lines 425-443); tests per minute in tenths
_generate_performance_section(metrics) ==
    IF ~metrics.present
    THEN [placeholder |-> "No performance metrics available",
          avg_test_duration |-> 0, tests_per_minute |-> 0, max_test_duration |-> 0]
    ELSE [placeholder |-> "",
          avg_test_duration |-> Fixed2(metrics.avg_test_duration.num,
                                       metrics.avg_test_duration.den),
          tests_per_minute |-> RoundHalfEven(metrics.tests_per_minute.num * 10,
                                             metrics.tests_per_minute.den),
          max_test_duration |-> Fixed2(metrics.max_test_duration, 1)]

\* _generate_failure_section (lines 445-461)
_generate_failure_section(failure_data) ==
    IF Len(failure_data.failed_tests) = 0
    THEN [placeholder |-> "No test failures detected!", tests |-> <<>>]
    ELSE LET shown == FirstN(failure_data.failed_tests, HtmlShown)
         IN  [placeholder |-> "",
              tests |-> [i \in 1..Len(shown) |->
                 [name |-> shown[i].name,
                  duration |-> Fixed2(shown[i].duration.n, 1),
                  error_message |-> shown[i].error_message]]]

\* a format specification ':.2f' applied to a value that is no number
\* (line 361 for the duration card, line 456 for a shown failed test)
HtmlRaises(r) ==
    \/ ~IsNum(r.execution_summary.execution_time)
    \/ \E i \in 1..Len(FirstN(r.failure_analysis.failed_tests, HtmlShown)) :
          ~IsNum(r.failure_analysis.failed_tests[i].duration)

HtmlContent(r) ==
    [total_tests |-> r.execution_summary.total_tests,
     passed |-> r.execution_summary.passed,
     failed |-> r.execution_summary.failed,
     skipped |-> r.execution_summary.skipped,
     pass_rate |-> r.execution_summary.pass_rate,
     duration |-> Fixed2(r.execution_summary.execution_time.n, 1),
     categories |-> _generate_category_rows(r.test_metrics.categories),
     performance |-> _generate_performance_section(r.performance_metrics),
     failures |-> _generate_failure_section(r.failure_analysis),
     environment |-> r.framework_info.environment]

---------------------------------------------------------------------------
(* Input artifacts.                                                        *)

Atoms(names) == Norm([i \in 1..Len(names) |-> Run(names[i], 1)])

NoCall == [t |-> "absent", longrepr |-> Absent]
NullCall == [t |-> "null", longrepr |-> Absent]
Call(longrepr) == [t |-> "obj", longrepr |-> longrepr]

NoKeywords == [t |-> "absent", test |-> Absent]
Keywords(test) == [t |-> "obj", test |-> test]
ListKeywords == [t |-> "list", test |-> Absent]

\* an entry of the tests array that is a JSON object
Test(nodeid, outcome, duration, call) ==
    [isObj |-> TRUE, nodeid |-> nodeid, outcome |-> outcome,
     duration |-> duration, keywords |-> NoKeywords, call |-> call]

\* an entry of the tests array that is no object (a number, a string, null)
NotAnObject ==
    [isObj |-> FALSE, nodeid |-> Absent, outcome |-> Absent,
     duration |-> Absent, keywords |-> NoKeywords, call |-> NoCall]

Login(t) == Str(Atoms(<<"tests/", "test_login", ".py", "::", t>>))
Cart(t) == Str(Atoms(<<"tests/", "test_cart", ".py", "::", t>>))
Nested(t) == Str(Atoms(<<"tests/", "e2e/", "tests/", "test_cart", ".py", "::", t>>))
Outcome(o) == Str(S(o))

\* the test records the tests array is drawn from
TestMenu ==
    { Test(Login("t1"), Outcome("passed"), Num(100), NoCall),
      Test(Login("t2"), Outcome("failed"), Num(300),
           Call(Str(Atoms(<<"E1", "\n", "x">>)))),
      Test(Cart("t1"), Outcome("failed"), Num(200), Call(Str(S("E1")))),
      Test(Cart("t2"), Outcome("skipped"), Absent, NoCall),
      Test(Str(Atoms(<<"tests/", "test_cart", ".py">>)), Outcome("passed"),
           Num(50), NoCall),
      Test(Cart("t3"), Outcome("failed"), Num(100), Call(Str(EmptyStr))),
      Test(Login("t3"), Outcome("failed"), Num(100), Call(Absent)),
      Test(Login("t4"), Outcome("error"), Num(100), NoCall),
      NotAnObject,
      Test(Login("t5"), Outcome("passed"), Str(S("slow")), NoCall),
      Test(Nested("t1"), Outcome("passed"), Num(100), NoCall),
      Test(Login("t6"), Outcome("failed"), Num(400), Call(Str(S("E2")))),
      Test(Cart("t4"), Outcome("failed"), Null, Call(Str(S("E2")))),
      [Test(Cart("t5"), Outcome("passed"), Num(150), NoCall)
          EXCEPT !.keywords = Keywords(Str(S("t5")))],
      [Test(Cart("t6"), Outcome("passed"), Num(150), NoCall)
          EXCEPT !.keywords = ListKeywords],
      Test(Login("t7"), Outcome("total"), Num(250), NoCall) }

RECURSIVE SeqsUpTo(_, _)
\* the sequences over set of length at most n
SeqsUpTo(set, n) ==
    IF n = 0 THEN {<<>>}
    ELSE LET shorter == SeqsUpTo(set, n - 1)
         IN  shorter \cup {Append(q, x) : q \in shorter, x \in set}

NoTests == [t |-> "absent", items |-> <<>>]
NullTests == [t |-> "null", items |-> <<>>]
TestList(items) == [t |-> "list", items |-> items]

NoSummary ==
    [t |-> "absent", total |-> Absent, passed |-> Absent, failed |-> Absent,
     skipped |-> Absent, error |-> Absent]
NullSummary == [NoSummary EXCEPT !.t = "null"]

\* test_results.json holding a JSON object
JsonObject(summary, duration, tests) ==
    [exists |-> TRUE, parses |-> TRUE, isObj |-> TRUE,
     summary |-> summary, duration |-> duration, tests |-> tests]

NoJson == [JsonObject(NoSummary, Absent, NoTests) EXCEPT !.exists = FALSE,
                                                         !.parses = FALSE,
                                                         !.isObj = FALSE]
\* the file exists and json.load raises
BadJson == [NoJson EXCEPT !.exists = TRUE]
\* the file parses to a value that is no object
NonObjectJson == [BadJson EXCEPT !.parses = TRUE]

CountValues == {Absent, Str(S("many"))} \cup {Num(k) : k \in 0..MaxCount}
FlagValues == {Absent, Num(1)}

Summaries ==
    {NoSummary, NullSummary} \cup
    [t : {"obj"}, total : CountValues, passed : CountValues,
     failed : FlagValues, skipped : FlagValues, error : FlagValues]

DurationValues == {Absent, Num(42500), Str(S("42.5s")), Null}

FewTests ==
    {NoTests, NullTests,
     TestList(<<Test(Login("t1"), Outcome("passed"), Num(100), NoCall)>>)}

\* junit.xml; an attribute is Absent, Num (a numeral) or Str (other text)
Junit(root, child, tests, failures, errors, skipped, time) ==
    [exists |-> TRUE, parses |-> TRUE, root |-> root, child |-> child,
     tests |-> tests, failures |-> failures, errors |-> errors,
     skipped |-> skipped, time |-> time]

NoJunit == [Junit("testsuites", FALSE, Absent, Absent, Absent, Absent, Absent)
               EXCEPT !.exists = FALSE, !.parses = FALSE]
BadJunit == [NoJunit EXCEPT !.exists = TRUE]

JunitFiles ==
    {NoJunit, BadJunit,
     Junit("testsuite", FALSE, Num(5), Num(1), Num(0), Num(0), Num(12300)),
     Junit("testsuites", TRUE, Num(4), Num(1), Num(1), Absent, Num(2000)),
     Junit("testsuites", FALSE, Absent, Absent, Absent, Absent, Absent),
     Junit("testsuite", FALSE, Str(S("five")), Num(1), Num(0), Num(0), Num(12300))}

---------------------------------------------------------------------------
(* generate_comprehensive_report (lines 30-55), one action per step.       *)

BlankReport ==
    [execution_summary |-> ZeroSummary,
     test_metrics |-> EmptyMetrics,
     performance_metrics |-> NoPerformance,
     failure_analysis |-> NoFailures,
     framework_info |-> _get_framework_info(FALSE)]

NoReads == [json |-> 0, junit |-> 0]

\* what opening an output file with 'w' and writing it does: "ok" writes
\* the content, "denied" makes open() raise, "full" makes the write raise
\* after open() has emptied the file
DiskStates == {"ok", "denied", "full"}
Writable == [json |-> "ok", html |-> "ok"]

\* an output file opened and not written to the end
Truncated == [truncated |-> TRUE]

\* faulty variant: the file is opened for appending
WriteFile_append(state, file, content) ==
    IF state = "ok" THEN Append(file, content)
    ELSE IF state = "denied" THEN file
    ELSE <<Truncated>>

\* the file after 'with open(file, "w") as f: f.write(content)'
WriteFile(state, file, content) ==
    IF state = "ok" THEN <<content>>
    ELSE IF state = "denied" THEN file
    ELSE <<Truncated>>

\* one open() of test_results.json, made when the file exists
ReadJson(r) == IF jsonFile.exists THEN [r EXCEPT !.json = @ + 1] ELSE r

\* reporter.generate_comprehensive_report() is entered
CallReport ==
    /\ pc = "idle"
    /\ pc' = "summary"
    /\ report' = BlankReport
    /\ reads' = NoReads
    /\ raised' = FALSE
    /\ caller' = "direct"
    /\ UNCHANGED <<jsonFile, junitFile, ci, returned, stdout, firefox, disk, console, outJson, outHtml>>

\* line 38
GetExecutionSummary ==
    /\ pc = "summary"
    /\ report' = [report EXCEPT !.execution_summary =
                      _get_execution_summary(jsonFile, junitFile)]
    /\ reads' = IF jsonFile.exists THEN [reads EXCEPT !.json = @ + 1]
                ELSE IF junitFile.exists THEN [reads EXCEPT !.junit = @ + 1]
                ELSE reads
    /\ pc' = "metrics"
    /\ UNCHANGED <<jsonFile, junitFile, ci, returned, stdout, firefox, disk, caller, console, outJson, outHtml, raised>>

\* line 39
AnalyzeTestResults ==
    /\ pc = "metrics"
    /\ report' = [report EXCEPT !.test_metrics = _analyze_test_results(jsonFile)]
    /\ reads' = ReadJson(reads)
    /\ pc' = "performance"
    /\ UNCHANGED <<jsonFile, junitFile, ci, returned, stdout, firefox, disk, caller, console, outJson, outHtml, raised>>

\* line 41
GetPerformanceMetrics ==
    /\ pc = "performance"
    /\ report' = [report EXCEPT !.performance_metrics =
                      _get_performance_metrics(jsonFile)]
    /\ reads' = ReadJson(reads)
    /\ pc' = "failures"
    /\ UNCHANGED <<jsonFile, junitFile, ci, returned, stdout, firefox, disk, caller, console, outJson, outHtml, raised>>

\* line 42
AnalyzeFailures ==
    /\ pc = "failures"
    /\ report' = [report EXCEPT !.failure_analysis = _analyze_failures(jsonFile)]
    /\ reads' = ReadJson(reads)
    /\ pc' = "framework"
    /\ UNCHANGED <<jsonFile, junitFile, ci, returned, stdout, firefox, disk, caller, console, outJson, outHtml, raised>>

\* line 44
GetFrameworkInfo ==
    /\ pc = "framework"
    /\ report' = [report EXCEPT !.framework_info = _get_framework_info(ci)]
    /\ pc' = "write_json"
    /\ UNCHANGED <<jsonFile, junitFile, ci, returned, stdout, firefox, disk, caller, console, outJson, outHtml, raised, reads>>

\* lines 48-50: comprehensive_test_report.json is opened with 'w' and
\* written; an OSError of open() or of the write leaves the call
WriteJsonReport ==
    /\ pc = "write_json"
    /\ outJson' = WriteFile(disk.json, outJson, JsonDump(report))
    /\ raised' = (disk.json # "ok")
    /\ pc' = IF disk.json = "ok" THEN "write_html" ELSE "done"
    /\ UNCHANGED <<jsonFile, junitFile, ci, returned, stdout, firefox, disk, caller, console, report,
                   outHtml, reads>>

\* the console encodings: under "legacy" (cp1252, ascii, ...) sys.stdout
\* cannot encode the pictographs of the report messages
Encodings == {"utf8", "legacy"}

\* print(text) raises UnicodeEncodeError: the text holds a pictograph and
\* the console encoding has none
PrintRaises(pictograph) == pictograph /\ stdout = "legacy"

\* faulty variant: a failed HTML step removes the JSON report again
GenerateHtmlSummaryReport_rollback ==
    /\ pc = "write_html"
    /\ IF HtmlRaises(report)
       THEN /\ raised' = TRUE
            /\ UNCHANGED outHtml
       ELSE /\ outHtml' = WriteFile(disk.html, outHtml, HtmlContent(report))
            /\ raised' = (disk.html # "ok")
    /\ outJson' = IF raised' THEN <<>> ELSE outJson
    /\ pc' = "done"
    /\ UNCHANGED <<jsonFile, junitFile, ci, returned, stdout, firefox, disk, caller, console, report, reads>>

\* line 53: the f-string is evaluated first; only then is the file opened
\* (lines 393-396).  An exception of the f-string, of open() or of the
\* write leaves generate_comprehensive_report, and so does one of the
\* print at line 398, after the file is written.
GenerateHtmlSummaryReport ==
    /\ pc = "write_html"
    /\ IF HtmlRaises(report)
       THEN /\ raised' = TRUE
            /\ UNCHANGED outHtml
       ELSE /\ outHtml' = WriteFile(disk.html, outHtml, HtmlContent(report))
            /\ raised' = (disk.html # "ok" \/ PrintRaises(TRUE))
    /\ pc' = "done"
    /\ UNCHANGED <<jsonFile, junitFile, ci, returned, stdout, firefox, disk, caller, console, report, outJson, reads>>

Next ==
    \/ CallReport
    \/ GetExecutionSummary
    \/ AnalyzeTestResults
    \/ GetPerformanceMetrics
    \/ AnalyzeFailures
    \/ GetFrameworkInfo
    \/ WriteJsonReport
    \/ GenerateHtmlSummaryReport

---------------------------------------------------------------------------
(* BrowserFactory._create_firefox_browser (browser_factory.py, lines       *)
(* 149-299): the driver is created in a retry loop (lines 238-250).        *)

MaxRetries == 3

\* the exceptions the driver constructor raises
DriverErrors == {"SessionNotCreatedException", "TimeoutException"}

NoException == [kind |-> "", attempt |-> 0]

\* the state before the call: pc is the position in the function, attempt
\* the loop variable, events the constructor calls and waits so far, e the
\* exception being handled or propagated
FirefoxIdle(headless, window_size) ==
    [pc |-> "idle", headless |-> headless, window_size |-> window_size,
     options |-> {}, attempt |-> 0, driver |-> "None", events |-> <<>>,
     e |-> NoException, size |-> <<0, 0>>]

\* lines 160-225: the options; headless when asked for or under CI
CreateFirefoxBrowser ==
    /\ firefox.pc = "idle"
    /\ firefox' = [firefox EXCEPT
          !.pc = "service",
          !.options = IF firefox.headless \/ ci THEN {"--headless"} ELSE {}]
    /\ UNCHANGED <<jsonFile, junitFile, ci, pc, report, outJson, outHtml, raised,
                   reads, disk, caller, console, returned, stdout>>

\* lines 229-240: GeckoDriverManager().install() and the service; an
\* exception goes to the outer except branch, which logs it and re-raises
\* (lines 269-299); otherwise the loop is entered with driver = None
CreateService ==
    /\ firefox.pc = "service"
    /\ \E ok \in BOOLEAN :
          firefox' = IF ok
                     THEN [firefox EXCEPT !.pc = "attempt", !.attempt = 0,
                                          !.driver = "None"]
                     ELSE [firefox EXCEPT !.pc = "raised",
                              !.e = [kind |-> "InstallError", attempt |-> 0]]
    /\ UNCHANGED <<jsonFile, junitFile, ci, pc, report, outJson, outHtml, raised,
                   reads, disk, caller, console, returned, stdout>>

\* lines 242-244: webdriver.Firefox(...) returns a driver and the loop is
\* left by break, or raises
Attempt ==
    /\ firefox.pc = "attempt"
    /\ \E result \in {"ok"} \cup DriverErrors :
          firefox' =
             IF result = "ok"
             THEN [firefox EXCEPT
                      !.driver = "driver",
                      !.events = Append(@, [ev |-> "call", result |-> "ok"]),
                      !.pc = "timeouts"]
             ELSE [firefox EXCEPT
                      !.events = Append(@, [ev |-> "call", result |-> result]),
                      !.e = [kind |-> result, attempt |-> firefox.attempt + 1],
                      !.pc = "except"]
    /\ UNCHANGED <<jsonFile, junitFile, ci, pc, report, outJson, outHtml, raised,
                   reads, disk, caller, console, returned, stdout>>

\* faulty variant: the last attempt is taken to be number max_retries
Retry_late ==
    /\ firefox.pc = "except"
    /\ firefox' =
          IF firefox.attempt = MaxRetries
          THEN [firefox EXCEPT !.pc = "raised"]
          ELSE [firefox EXCEPT
                   !.events = Append(@, [ev |-> "wait", result |-> ""]),
                   !.attempt = @ + 1,
                   !.e = NoException,
                   !.pc = IF firefox.attempt + 1 < MaxRetries THEN "attempt"
                          ELSE "timeouts"]
    /\ UNCHANGED <<jsonFile, junitFile, ci, pc, report, outJson, outHtml, raised,
                   reads, disk, caller, console, returned, stdout>>

\* lines 245-250: the except branch of the loop logs a warning; on the last
\* attempt it re-raises the exception being handled, otherwise it sleeps
\* and the loop goes on with the next value of range(max_retries), or ends
\* when the range is used up
Retry ==
    /\ firefox.pc = "except"
    /\ firefox' =
          IF firefox.attempt = MaxRetries - 1
          THEN [firefox EXCEPT !.pc = "raised"]
          ELSE [firefox EXCEPT
                   !.events = Append(@, [ev |-> "wait", result |-> ""]),
                   !.attempt = @ + 1,
                   !.e = NoException,
                   !.pc = IF firefox.attempt + 1 < MaxRetries THEN "attempt"
                          ELSE "timeouts"]
    /\ UNCHANGED <<jsonFile, junitFile, ci, pc, report, outJson, outHtml, raised,
                   reads, disk, caller, console, returned, stdout>>

\* lines 253-254: the timeouts are set on driver; on None the attribute
\* lookup raises, and a driver may refuse the command
SetTimeouts ==
    /\ firefox.pc = "timeouts"
    /\ \E ok \in BOOLEAN :
          firefox' =
             IF firefox.driver = "None"
             THEN [firefox EXCEPT !.pc = "raised",
                      !.e = [kind |-> "AttributeError", attempt |-> 0]]
             ELSE IF ok THEN [firefox EXCEPT !.pc = "maximize"]
             ELSE [firefox EXCEPT !.pc = "raised",
                      !.e = [kind |-> "WebDriverException", attempt |-> 0]]
    /\ UNCHANGED <<jsonFile, junitFile, ci, pc, report, outJson, outHtml, raised,
                   reads, disk, caller, console, returned, stdout>>

\* lines 257-264: maximize_window, with set_window_size as the fallback;
\* a failure of either is logged only
Maximize ==
    /\ firefox.pc = "maximize"
    /\ \E maximized \in BOOLEAN, resized \in BOOLEAN :
          firefox' = [firefox EXCEPT
             !.pc = "returned",
             !.size = IF maximized THEN <<1920, 1080>>
                      ELSE IF resized THEN firefox.window_size
                      ELSE firefox.size]
    /\ UNCHANGED <<jsonFile, junitFile, ci, pc, report, outJson, outHtml, raised,
                   reads, disk, caller, console, returned, stdout>>

NextFirefox ==
    \/ CreateFirefoxBrowser
    \/ CreateService
    \/ Attempt
    \/ Retry
    \/ SetTimeouts
    \/ Maximize

---------------------------------------------------------------------------
(* Initial states and specifications of the reporter.                      *)

\* the reporter has been constructed and no report generated yet
InitReporter ==
    /\ ci = FALSE
    /\ pc = "idle"
    /\ report = BlankReport
    /\ outJson = <<>>
    /\ outHtml = <<>>
    /\ raised = FALSE
    /\ reads = NoReads
    /\ disk = Writable
    /\ caller = "none"
    /\ console = <<>>
    /\ returned = <<>>
    /\ stdout = "utf8"
    /\ firefox = FirefoxIdle(FALSE, <<1920, 1080>>)

\* the reports directory varies in the files present, the summary block,
\* the top-level duration and the shape of the tests array
Init ==
    /\ jsonFile \in {NoJson, BadJson, NonObjectJson} \cup
                    {JsonObject(s, d, t) :
                        s \in Summaries, d \in DurationValues, t \in FewTests}
    /\ junitFile \in JunitFiles
    /\ InitReporter

Spec == Init /\ [][Next]_vars

\* the reports directory varies in the records of the tests array
InitTests ==
    /\ jsonFile \in {JsonObject(NoSummary, Num(1000), TestList(ts)) :
                        ts \in SeqsUpTo(TestMenu, MaxTests)}
    /\ junitFile = NoJunit
    /\ InitReporter

SpecTests == InitTests /\ [][Next]_vars

\* a failed test; the durations tell the records apart
FailedTest(nodeid, duration, call) ==
    Test(nodeid, Outcome("failed"), Num(duration), call)

\* test records that differ in what the failure analysis reads: the outcome,
\* the call section, the longrepr and its length (the error texts are made
\* of one-character atoms), the 'test' keyword
FailureMenu ==
    { FailedTest(Login("t1"), 110, Call(Str(S("E")))),
      FailedTest(Login("t2"), 120, NoCall),
      FailedTest(Login("t3"), 130, NullCall),
      FailedTest(Cart("t1"), 140, Call(Null)),
      FailedTest(Cart("t2"), 150, Call(Str(Rep("A", 200)))),
      FailedTest(Cart("t3"), 160, Call(Str(Rep("A", 201)))),
      FailedTest(Cart("t4"), 170,
                 Call(Str(Concat(Rep("A", 120), Atoms(<<"\n", "B">>))))),
      FailedTest(Cart("t5"), 180,
                 Call(Str(Concat(Rep("A", 150),
                                 Concat(S("\n"), Rep("B", 100)))))),
      [FailedTest(Login("t4"), 190, Call(Str(S("E"))))
          EXCEPT !.keywords = Keywords(Str(S("t4")))],
      Test(Login("t5"), Outcome("passed"), Num(200), Call(Str(S("E")))),
      Test(Login("t6"), Outcome("skipped"), Num(0), NoCall),
      Test(Login("t7"), Outcome("error"), Num(210), Call(Str(S("F")))),
      NotAnObject }

\* the reports directory varies in the failure records of the tests array
InitFailures ==
    /\ jsonFile \in {JsonObject(NoSummary, Num(1000), TestList(ts)) :
                        ts \in SeqsUpTo(FailureMenu, MaxTests)}
    /\ junitFile = NoJunit
    /\ InitReporter

SpecFailures == InitFailures /\ [][Next]_vars

\* the values of an attribute of <testsuite>: missing, a numeral, other text
JunitCounts == {Absent, Str(S("five"))} \cup {Num(k) : k \in 0..MaxCount}
JunitTimes == {Absent, Num(12300), Str(S("fast"))}

\* only junit.xml is present; its root, its child and its attributes vary
InitJunit ==
    /\ jsonFile = NoJson
    /\ junitFile \in {BadJunit} \cup
                     {Junit(rc[1], rc[2], t, f, e, s, d) :
                         rc \in {<<"testsuite", FALSE>>, <<"testsuites", TRUE>>,
                                 <<"testsuites", FALSE>>},
                         t \in JunitCounts, f \in JunitCounts, e \in JunitCounts,
                         s \in JunitCounts, d \in JunitTimes}
    /\ InitReporter

SpecJunit == InitJunit /\ [][Next]_vars

---------------------------------------------------------------------------
(* The callers: generate_test_execution_report (lines 464-480) and the     *)
(* hook pytest_sessionfinish (conftest.py, lines 91-121).                  *)

\* the six statistics lines both callers print from the returned report
SummaryLines(r) ==
    <<[line |-> "Total Tests", value |-> r.execution_summary.total_tests],
      [line |-> "Passed", value |-> r.execution_summary.passed],
      [line |-> "Failed", value |-> r.execution_summary.failed],
      [line |-> "Skipped", value |-> r.execution_summary.skipped],
      [line |-> "Pass Rate", value |-> Num(r.execution_summary.pass_rate)],
      [line |-> "Duration",
       value |-> Num(Fixed2(r.execution_summary.execution_time.n, 1))]>>

\* conftest.py line 121
FailureLine ==
    [line |-> "Failed to generate comprehensive report", value |-> Absent]

\* lines 466-467: generate_test_execution_report() constructs a reporter
\* and calls generate_comprehensive_report
CallWrapper ==
    /\ pc = "idle"
    /\ pc' = "summary"
    /\ report' = BlankReport
    /\ reads' = NoReads
    /\ raised' = FALSE
    /\ caller' = "wrapper"
    /\ UNCHANGED <<jsonFile, junitFile, ci, returned, stdout, firefox, disk, console, outJson, outHtml>>

\* conftest.py lines 96-99: the hook enters its try block, constructs a
\* reporter and calls generate_comprehensive_report
SessionFinish ==
    /\ pc = "idle"
    /\ pc' = "summary"
    /\ report' = BlankReport
    /\ reads' = NoReads
    /\ raised' = FALSE
    /\ caller' = "hook"
    /\ UNCHANGED <<jsonFile, junitFile, ci, returned, stdout, firefox, disk, console, outJson, outHtml>>

\* lines 469-480: the wrapper prints the statistics of the returned report;
\* an exception of generate_comprehensive_report passes through it, and so
\* does one of its own print at line 470
WrapperReturn ==
    /\ pc = "done"
    /\ caller = "wrapper"
    /\ console' = IF raised \/ PrintRaises(TRUE) THEN console
                  ELSE console \o SummaryLines(report)
    /\ raised' = (raised \/ PrintRaises(TRUE))
    /\ pc' = "finished"
    /\ UNCHANGED <<jsonFile, junitFile, ci, returned, stdout, firefox, disk, caller, report, outJson,
                   outHtml, reads>>

\* conftest.py lines 101-121: the hook prints the statistics of the returned
\* report (the print at line 103 holds a pictograph); its except branch
\* catches an exception of the call or of these prints, logs it and prints
\* the failure line, which holds a pictograph too: an exception of that
\* print leaves the hook
HookReturn ==
    /\ pc = "done"
    /\ caller = "hook"
    /\ console' = IF raised \/ PrintRaises(TRUE)
                  THEN IF PrintRaises(TRUE) THEN console
                       ELSE Append(console, FailureLine)
                  ELSE console \o SummaryLines(report)
    /\ pc' = IF PrintRaises(TRUE) THEN "escaped" ELSE "finished"
    /\ UNCHANGED <<jsonFile, junitFile, ci, returned, stdout, firefox, disk, caller, report, outJson,
                   outHtml, raised, reads>>

NextSession ==
    \/ CallWrapper
    \/ SessionFinish
    \/ GetExecutionSummary
    \/ AnalyzeTestResults
    \/ GetPerformanceMetrics
    \/ AnalyzeFailures
    \/ GetFrameworkInfo
    \/ WriteJsonReport
    \/ GenerateHtmlSummaryReport
    \/ WrapperReturn
    \/ HookReturn

\* test_results.json of a session: missing, unparseable, three tests of
\* which one failed, and the same with a duration that is no number
SessionSummary ==
    [t |-> "obj", total |-> Num(3), passed |-> Num(2), failed |-> Num(1),
     skipped |-> Absent, error |-> Absent]
SessionTests ==
    TestList(<<Test(Login("t1"), Outcome("passed"), Num(100), NoCall),
               Test(Login("t2"), Outcome("passed"), Num(300), NoCall),
               Test(Cart("t1"), Outcome("failed"), Num(200), Call(Str(S("E1"))))>>)
SessionJson ==
    {NoJson, BadJson,
     JsonObject(SessionSummary, Num(42500), SessionTests),
     JsonObject(SessionSummary, Null, SessionTests)}

\* the output files an earlier session left in the reports directory
StaleJson == JsonDump(BlankReport)
StaleHtml == HtmlContent(BlankReport)

\* a session has ended: the input artifacts, the state of the disk and the
\* output files of an earlier session vary
InitSession ==
    /\ jsonFile \in SessionJson
    /\ junitFile \in {NoJunit,
                      Junit("testsuite", FALSE, Num(3), Num(1), Num(0), Num(0),
                            Num(12300))}
    /\ disk \in [json : DiskStates, html : DiskStates]
    /\ outJson \in {<<>>, <<StaleJson>>}
    /\ outHtml \in {<<>>, <<StaleHtml>>}
    /\ ci = FALSE
    /\ pc = "idle"
    /\ report = BlankReport
    /\ raised = FALSE
    /\ reads = NoReads
    /\ caller = "none"
    /\ console = <<>>
    /\ returned = <<>>
    /\ stdout = "utf8"
    /\ firefox = FirefoxIdle(FALSE, <<1920, 1080>>)

SpecSession == InitSession /\ [][NextSession]_vars

\* the same session on a console of either encoding, with the disk in order
InitConsole ==
    /\ jsonFile \in SessionJson
    /\ junitFile \in {NoJunit,
                      Junit("testsuite", FALSE, Num(3), Num(1), Num(0), Num(0),
                            Num(12300))}
    /\ disk \in [json : {"ok", "denied"}, html : {"ok", "denied"}]
    /\ outJson \in {<<>>, <<StaleJson>>}
    /\ outHtml \in {<<>>, <<StaleHtml>>}
    /\ stdout \in Encodings
    /\ firefox = FirefoxIdle(FALSE, <<1920, 1080>>)
    /\ ci = FALSE
    /\ pc = "idle"
    /\ report = BlankReport
    /\ raised = FALSE
    /\ reads = NoReads
    /\ caller = "none"
    /\ console = <<>>
    /\ returned = <<>>

SpecConsole == InitConsole /\ [][NextSession]_vars

---------------------------------------------------------------------------
(* Repeated calls of generate_comprehensive_report in one process, on the  *)
(* same reports directory.                                                 *)

\* lines 30-37: generate_comprehensive_report is called again, on the same
\* or on a new TestReporter (the object holds nothing but the directory);
\* the report the last call returned is remembered for comparison
CallAgain ==
    /\ pc = "done"
    /\ Len(returned) < MaxCalls - 1
    /\ returned' = IF raised THEN returned ELSE Append(returned, report)
    /\ pc' = "summary"
    /\ report' = BlankReport
    /\ reads' = NoReads
    /\ raised' = FALSE
    /\ UNCHANGED <<jsonFile, junitFile, ci, stdout, firefox, disk, caller, console,
                   outJson, outHtml>>

\* line 305 reads os.getenv('CI'): between two calls the variable is set
\* or unset
SetEnvironment ==
    /\ pc \in {"idle", "done"}
    /\ ci' = ~ci
    /\ UNCHANGED <<jsonFile, junitFile, pc, report, outJson, outHtml, raised,
                   reads, disk, caller, console, returned, stdout, firefox>>

NextRepeat ==
    \/ CallReport
    \/ GetExecutionSummary
    \/ AnalyzeTestResults
    \/ GetPerformanceMetrics
    \/ AnalyzeFailures
    \/ GetFrameworkInfo
    \/ WriteJsonReport
    \/ GenerateHtmlSummaryReport
    \/ CallAgain
    \/ SetEnvironment

\* the input artifacts and the output files of an earlier process vary;
\* the disk is writable
InitRepeat ==
    /\ jsonFile \in SessionJson \cup
                    {JsonObject(NoSummary, Num(1000), TestList(ts)) :
                        ts \in SeqsUpTo(TestMenu, 1)}
    /\ junitFile \in {NoJunit,
                      Junit("testsuite", FALSE, Num(3), Num(1), Num(0), Num(0),
                            Num(12300))}
    /\ outJson \in {<<>>, <<StaleJson>>}
    /\ outHtml \in {<<>>, <<StaleHtml>>}
    /\ ci \in BOOLEAN
    /\ pc = "idle"
    /\ report = BlankReport
    /\ raised = FALSE
    /\ reads = NoReads
    /\ disk = Writable
    /\ caller = "none"
    /\ console = <<>>
    /\ returned = <<>>
    /\ stdout = "utf8"
    /\ firefox = FirefoxIdle(FALSE, <<1920, 1080>>)

SpecRepeat == InitRepeat /\ [][NextRepeat]_vars

\* an exception left the outermost call
Escaped == pc = "escaped" \/ (pc = "finished" /\ caller = "wrapper" /\ raised)

\* the call has returned its report
Returned == pc = "done" /\ ~raised

---------------------------------------------------------------------------
(* Properties of the execution summary.                                    *)

\* the execution summary has been computed
SummaryDone == pc \notin {"idle", "summary"}

\* a JSON artifact that follows the data model: an object whose summary
\* counts and duration are numbers (or missing) and whose tests are records
\* with string nodeid, an outcome string and a numeric duration
ValidJson(f) ==
    /\ f.exists /\ f.parses /\ f.isObj
    /\ f.summary.t \in {"absent", "obj"}
    /\ \A v \in {f.summary.total, f.summary.passed, f.summary.failed,
                 f.summary.skipped, f.summary.error, f.duration} :
          v.t \in {"absent", "num"}
    /\ f.tests.t \in {"absent", "list"}
    /\ \A i \in 1..Len(f.tests.items) :
          /\ f.tests.items[i].isObj
          /\ IsStr(f.tests.items[i].nodeid)
          /\ IsStr(f.tests.items[i].outcome)
          /\ f.tests.items[i].duration.t \in {"absent", "num"}

\* the artifact's own counts add up (a missing count is 0)
ConsistentSummary(f) ==
    f.summary.total.n = f.summary.passed.n + f.summary.failed.n
                        + f.summary.skipped.n + f.summary.error.n

\* C1: once the summary is computed, an existing test_results.json is its
\* only source: every field is the zeroed default or the JSON file's own
\* value, junit.xml is never opened, and a JSON file that does not parse
\* leaves the zeroed summary; junit.xml is read only when the JSON file does
\* not exist, and then supplies the counts; with neither file the summary
\* is the zeroed one.
C1_ArtifactSelection ==
    SummaryDone =>
        LET s == report.execution_summary
        IN  /\ jsonFile.exists =>
                /\ s.total_tests \in {Num(0), jsonFile.summary.total}
                /\ s.passed \in {Num(0), jsonFile.summary.passed}
                /\ s.failed \in {Num(0), jsonFile.summary.failed}
                /\ s.skipped \in {Num(0), jsonFile.summary.skipped}
                /\ s.errors \in {Num(0), jsonFile.summary.error}
                /\ s.execution_time \in {Num(0), jsonFile.duration}
                /\ s.pass_rate # 0 =>
                      /\ IsNum(jsonFile.summary.total)
                      /\ IsNum(jsonFile.summary.passed)
                      /\ 2 * Abs(s.pass_rate * jsonFile.summary.total.n
                                 - 10000 * jsonFile.summary.passed.n)
                            <= jsonFile.summary.total.n
                /\ ~jsonFile.parses => s = ZeroSummary
                /\ reads.junit = 0
            /\ reads.junit > 0 => ~jsonFile.exists
            /\ (~jsonFile.exists /\ junitFile.exists /\ junitFile.parses
                  /\ junitFile.root = "testsuite" /\ IsNum(junitFile.tests)) =>
                /\ s.total_tests = junitFile.tests
                /\ s.failed = junitFile.failures
                /\ s.execution_time = junitFile.time
            /\ (~jsonFile.exists /\ ~junitFile.exists) => s = ZeroSummary

\* C1 witness: both files exist and hold different counts, and the report
\* returned carries the JSON file's
C1_Witness ==
    /\ Returned
    /\ jsonFile.exists /\ junitFile.exists /\ junitFile.parses
    /\ junitFile.tests = Num(5)
    /\ jsonFile.summary.total = Num(3)
    /\ report.execution_summary.total_tests = Num(3)
    /\ report.execution_summary.execution_time = Num(42500)

\* C2: whatever the input files hold, the call does not raise and both
\* output files are written.
C2_NeverRaises ==
    pc = "done" => ~raised /\ outJson # <<>> /\ outHtml # <<>>

\* C4: for a valid JSON artifact whose own counts add up, the returned
\* summary has total_tests = passed + failed + skipped + errors.
C4_TotalIsSum ==
    (Returned /\ ValidJson(jsonFile) /\ ConsistentSummary(jsonFile)) =>
        LET s == report.execution_summary
        IN  /\ IsNum(s.total_tests) /\ IsNum(s.passed) /\ IsNum(s.failed)
            /\ IsNum(s.skipped) /\ IsNum(s.errors)
            /\ s.total_tests.n = s.passed.n + s.failed.n + s.skipped.n + s.errors.n

\* C4 witness: a returned report for an artifact with one test of each of
\* failed, skipped, error and a total of 3
C4_Witness ==
    /\ Returned /\ ValidJson(jsonFile) /\ ConsistentSummary(jsonFile)
    /\ jsonFile.summary.total = Num(3)
    /\ jsonFile.summary.error = Num(1)
    /\ report.execution_summary.errors = Num(1)
    /\ report.execution_summary.total_tests = Num(3)

\* C5: for a valid JSON artifact the call returns, pass_rate is the
\* hundredth of a percent nearest to passed / total * 100 when total > 0
\* and 0 when total = 0, and execution_time is the top-level duration.
C5_PassRate ==
    (pc = "done" /\ ValidJson(jsonFile)) =>
        LET s == report.execution_summary
            total == jsonFile.summary.total.n
            passed == jsonFile.summary.passed.n
        IN  /\ ~raised
            /\ total > 0 => 2 * Abs(s.pass_rate * total - 10000 * passed) <= total
            /\ total = 0 => s.pass_rate = 0
            /\ s.execution_time = Get(jsonFile.duration, Num(0))

\* C5 witness: 2 of 3 passed gives 66.67, with the duration carried over
C5_Witness ==
    /\ Returned /\ ValidJson(jsonFile)
    /\ jsonFile.summary.total = Num(3)
    /\ jsonFile.summary.passed = Num(2)
    /\ report.execution_summary.pass_rate = 6667
    /\ report.execution_summary.execution_time = Num(42500)

\* C6: with neither input file, the call returns a report with an all-zero
\* summary, no categories and no performance metrics, and the HTML written
\* shows the two placeholders.
C6_NoArtifacts ==
    (pc = "done" /\ ~jsonFile.exists /\ ~junitFile.exists) =>
        /\ ~raised
        /\ report.execution_summary.total_tests = Num(0)
        /\ report.execution_summary.passed = Num(0)
        /\ report.execution_summary.failed = Num(0)
        /\ report.execution_summary.skipped = Num(0)
        /\ report.execution_summary.errors = Num(0)
        /\ report.execution_summary.pass_rate = 0
        /\ report.test_metrics.categories = <<>>
        /\ ~report.performance_metrics.present
        /\ Len(outHtml) = 1
        /\ outHtml[1].categories.placeholder = "No category data available"
        /\ outHtml[1].performance.placeholder = "No performance metrics available"

\* C6 witness: the call has returned in a reports directory without inputs
C6_Witness ==
    /\ Returned /\ ~jsonFile.exists /\ ~junitFile.exists
    /\ Len(outJson) = 1 /\ Len(outHtml) = 1

---------------------------------------------------------------------------
(* Properties of the per-test analysis.                                    *)

\* the tests array of the artifact
Tests == jsonFile.tests.items

\* a record every method can process: an object with a string nodeid, an
\* outcome among passed/failed/skipped, a numeric duration, and a call and
\* keywords section that are objects when present
WellFormed(test) ==
    /\ test.isObj
    /\ IsStr(test.nodeid)
    /\ test.outcome \in {Outcome("passed"), Outcome("failed"), Outcome("skipped")}
    /\ test.duration.t \in {"absent", "num"}
    /\ test.keywords.t \in {"absent", "obj"}
    /\ test.call.t \in {"absent", "obj"}
    /\ test.call.longrepr.t \in {"absent", "str"}

\* the test is listed under a category: its nodeid holds the separator
HasSeparator(test) == IsStr(test.nodeid) /\ Contains(test.nodeid.s, "::")

RECURSIVE SumTotals(_)
SumTotals(categories) ==
    IF Len(categories) = 0 THEN 0
    ELSE categories[1].total + SumTotals(Tail(categories))

\* C3: a malformed record does not discard the well-formed ones: when the
\* tests array holds a well-formed record with a separator, the returned
\* report has categories, longest and shortest tests and performance
\* metrics, and a well-formed failed record is in failure_analysis.
C3_BadRecordIsolated ==
    pc = "done" =>
        /\ (\E i \in 1..Len(Tests) : WellFormed(Tests[i]) /\ HasSeparator(Tests[i])) =>
              /\ report.test_metrics.categories # <<>>
              /\ report.test_metrics.longest_tests # <<>>
              /\ report.test_metrics.shortest_tests # <<>>
              /\ report.performance_metrics.present
        /\ (\E i \in 1..Len(Tests) : WellFormed(Tests[i]) /\ IsFailed(Tests[i])) =>
              report.failure_analysis.failed_tests # <<>>

\* the records the data model describes: outcome one of passed, failed,
\* skipped, error, everything else well-formed
ModelRecord(test) ==
    \/ WellFormed(test)
    \/ WellFormed([test EXCEPT !.outcome = Outcome("passed")])
       /\ test.outcome = Outcome("error")

\* C7: for tests with outcomes among passed/failed/skipped/error, the
\* category totals add up to the number of tests with a separator.
C7_CategoryTotals ==
    (pc = "done" /\ \A i \in 1..Len(Tests) : ModelRecord(Tests[i])) =>
        SumTotals(report.test_metrics.categories)
            = Cardinality({i \in 1..Len(Tests) : HasSeparator(Tests[i])})

\* the file part of a nodeid with a leading tests/ and a trailing .py
\* removed, and nothing else
StrippedFile(nodeid) ==
    LET file == Before(nodeid, "::")
        a == IF Len(file) > 0 /\ file[1].c = "tests/"
             THEN Norm(<<Run("tests/", file[1].n - 1)>> \o Tail(file))
             ELSE file
        n == Len(a)
    IN  IF n > 0 /\ a[n].c = ".py"
        THEN Norm(SubSeq(a, 1, n - 1) \o <<Run(".py", a[n].n - 1)>>)
        ELSE a

\* C8: every category key is the stripped file part of a test with a
\* separator, and every such test of a well-formed array has its stripped
\* file part among the keys.
C8_CategoryKey ==
    pc = "done" =>
        LET keys == {report.test_metrics.categories[i].name :
                        i \in 1..Len(report.test_metrics.categories)}
            listed == {i \in 1..Len(Tests) : HasSeparator(Tests[i])}
        IN  /\ \A k \in keys : \E i \in listed : k = StrippedFile(Tests[i].nodeid.s)
            /\ (\A i \in 1..Len(Tests) : WellFormed(Tests[i])) =>
                  \A i \in listed : StrippedFile(Tests[i].nodeid.s) \in keys

\* the positions of the tests the code files under category name
TestsOfCategory(name) ==
    {i \in 1..Len(Tests) : HasSeparator(Tests[i])
                           /\ CategoryOf(Tests[i].nodeid.s) = name}

RECURSIVE SumAt(_)
\* the sum of the durations of the tests at the positions idx
SumAt(idx) ==
    IF idx = {} THEN 0
    ELSE LET i == CHOOSE j \in idx : TRUE
         IN  Get(Tests[i].duration, Num(0)).n + SumAt(idx \ {i})

\* C9: every category has total >= 1, its passed, failed and skipped counts
\* are the numbers of its tests with that outcome, and its avg_duration is
\* the mean duration of exactly its tests.
C9_CategoryCounts ==
    pc \notin {"idle", "summary", "metrics"} =>
        \A k \in 1..Len(report.test_metrics.categories) :
            LET c == report.test_metrics.categories[k]
                mine == TestsOfCategory(c.name)
                With(o) == Cardinality({i \in mine : Tests[i].outcome = Outcome(o)})
            IN  /\ c.total >= 1
                /\ c.passed = With("passed")
                /\ c.failed = With("failed")
                /\ c.skipped = With("skipped")
                /\ c.passed + c.failed + c.skipped <= c.total
                /\ mine # {}
                /\ c.avg_duration.num * Cardinality(mine) = c.avg_duration.den * SumAt(mine)

\* C9 witness: two categories, one of them with two tests of different
\* outcome and duration
C9_Witness ==
    /\ Returned
    /\ Len(report.test_metrics.categories) = 2
    /\ \E k \in 1..2 :
          /\ report.test_metrics.categories[k].total = 2
          /\ report.test_metrics.categories[k].passed = 1
          /\ report.test_metrics.categories[k].failed = 1
          /\ report.test_metrics.categories[k].avg_duration = [num |-> 200, den |-> 1]

RECURSIVE SumCounts(_)
SumCounts(clusters) ==
    IF Len(clusters) = 0 THEN 0
    ELSE clusters[1].count + SumCounts(Tail(clusters))

NonIncreasing(clusters) ==
    \A i \in 1..Len(clusters) - 1 : clusters[i].count >= clusters[i + 1].count

FailuresDone == pc \in {"framework", "write_json", "write_html", "done"}

\* C10 as stated: the cluster counts add up to at most the number of failed
\* tests with a non-empty error text, and the clusters are in non-increasing
\* order of count.
C10_ClusterCountsNonEmpty ==
    FailuresDone =>
        /\ SumCounts(report.failure_analysis.common_errors)
              <= Cardinality({i \in 1..Len(Tests) :
                                 /\ IsFailed(Tests[i])
                                 /\ HasLongrepr(Tests[i])
                                 /\ IsStr(Tests[i].call.longrepr)
                                 /\ StrLen(Tests[i].call.longrepr.s) > 0})
        /\ NonIncreasing(report.failure_analysis.common_errors)

\* C10 amended: the cluster counts add up to at most the number of failed
\* tests whose call section has a longrepr string, empty or not, and the
\* clusters are in non-increasing order of count.
C10_ClusterCounts ==
    FailuresDone =>
        /\ SumCounts(report.failure_analysis.common_errors)
              <= Cardinality({i \in 1..Len(Tests) :
                                 /\ IsFailed(Tests[i])
                                 /\ HasLongrepr(Tests[i])
                                 /\ IsStr(Tests[i].call.longrepr)})
        /\ NonIncreasing(report.failure_analysis.common_errors)

\* C10 witness: two failures share a first line and a third has an empty
\* error text: two clusters, of 2 and of 1
C10_Witness ==
    /\ Returned
    /\ Len(report.failure_analysis.common_errors) = 2
    /\ report.failure_analysis.common_errors[1] = [error |-> S("E1"), count |-> 2]
    /\ report.failure_analysis.common_errors[2] = [error |-> UnknownError, count |-> 1]

---------------------------------------------------------------------------
(* Properties of the failure analysis.                                     *)

\* a failed test that carries an error text
HasDetail(test) ==
    IsFailed(test) /\ HasLongrepr(test) /\ IsStr(test.call.longrepr)

\* the first line of the test's error text, cut to 100 characters
FirstLineKey(test) == Prefix(Before(test.call.longrepr.s, "\n"), KeyLimit)

\* C11: every failed test with an error text is counted under the first line
\* of that text cut to 100 characters; the count of a retained cluster is
\* the number of failed tests with that key; at most 5 clusters are retained
\* and a cluster is dropped only when 5 clusters of at least its count are
\* retained.
C11_ClusterKeyTopN ==
    FailuresDone =>
        LET ce == report.failure_analysis.common_errors
            detail == {i \in 1..Len(Tests) : HasDetail(Tests[i])}
            Mapping(key) ==
                Cardinality({i \in detail : FirstLineKey(Tests[i]) = key})
        IN  /\ Len(ce) <= TopErrors
            /\ \A k \in 1..Len(ce) : ce[k].count = Mapping(ce[k].error)
            /\ \A i \in detail :
                  \/ \E k \in 1..Len(ce) : ce[k].error = FirstLineKey(Tests[i])
                  \/ /\ Len(ce) = TopErrors
                     /\ \A k \in 1..Len(ce) :
                           ce[k].count >= Mapping(FirstLineKey(Tests[i]))

\* the failed records of the tests array, in artifact order
FailedRecords == SelectSeq(Tests, IsFailed)

\* C12: failed_tests holds one entry per test with outcome 'failed' and no
\* other, in artifact order; a failed test without an error text has an
\* entry with an empty error_message and adds to no cluster count.
C12_FailedTestsListed ==
    FailuresDone =>
        LET ft == report.failure_analysis.failed_tests
            ce == report.failure_analysis.common_errors
        IN  /\ Len(ft) = Len(FailedRecords)
            /\ \A k \in 1..Len(ft) :
                  /\ ft[k].duration = Get(FailedRecords[k].duration, Num(0))
                  /\ ~HasDetail(FailedRecords[k]) => ft[k].error_message = EmptyStr
            /\ SumCounts(ce) <= Cardinality({k \in 1..Len(FailedRecords) :
                                               HasDetail(FailedRecords[k])})

\* the record has a 'test' keyword
HasTestKeyword(test) == test.keywords.t = "obj" /\ test.keywords.test.t # "absent"

\* C13: the name of every entry of failed_tests is the 'test' keyword of its
\* record when the record has one, and the nodeid otherwise.
C13_FailedTestName ==
    FailuresDone =>
        LET ft == report.failure_analysis.failed_tests
        IN  Len(ft) = Len(FailedRecords) =>
                \A k \in 1..Len(ft) :
                    ft[k].name = IF HasTestKeyword(FailedRecords[k])
                                 THEN FailedRecords[k].keywords.test
                                 ELSE FailedRecords[k].nodeid

\* C14: the stored error_message of a failed test with error text e is e
\* itself when len(e) <= 200, and the first 200 characters of e followed by
\* '...' when len(e) > 200; it is never longer than 203 characters and has
\* the appended ellipsis exactly when e was cut.
C14_ErrorMessage ==
    FailuresDone =>
        LET ft == report.failure_analysis.failed_tests
        IN  \A k \in 1..Len(ft) :
                HasDetail(FailedRecords[k]) =>
                    LET e == FailedRecords[k].call.longrepr.s
                        m == ft[k].error_message
                    IN  /\ StrLen(e) <= MessageLimit => m = e
                        /\ StrLen(e) > MessageLimit =>
                              /\ Prefix(m, MessageLimit) = Prefix(e, MessageLimit)
                              /\ m = Concat(Prefix(m, MessageLimit), Rep(".", 3))
                        /\ StrLen(m) <= MessageLimit + 3
                        /\ StrLen(m) > MessageLimit <=> StrLen(e) > MessageLimit

\* C14 witness: one error text of exactly 200 characters is stored unchanged
\* and one of 201 characters is stored as 200 characters and '...'
C14_Witness ==
    /\ Returned
    /\ \E k \in 1..Len(report.failure_analysis.failed_tests) :
          report.failure_analysis.failed_tests[k].error_message = Rep("A", 200)
    /\ \E k \in 1..Len(report.failure_analysis.failed_tests) :
          report.failure_analysis.failed_tests[k].error_message
              = <<Run("A", 200), Run(".", 3)>>

---------------------------------------------------------------------------
(* Properties of the duration ranking.                                     *)

MetricsDone == pc \notin {"idle", "summary", "metrics"}

\* the duration of a test record, 0 when it has none
DurationOf(test) == Get(test.duration, Num(0))

NonIncreasingDuration(entries) ==
    \A k \in 1..Len(entries) - 1 :
        entries[k].duration.n >= entries[k + 1].duration.n

\* how many entries, and how many tests of the artifact, have duration d
EntriesWith(entries, d) ==
    Cardinality({k \in 1..Len(entries) : entries[k].duration = d})
TestsWith(d) ==
    Cardinality({i \in 1..Len(Tests) : DurationOf(Tests[i]) = d})

\* C15: with n tests in the artifact, longest_tests and shortest_tests hold
\* min(5, n) tests each, both in non-increasing order of duration; no test
\* left out of longest_tests is longer than one in it, and no test left out
\* of shortest_tests is shorter than one in it.
C15_DurationRanking ==
    MetricsDone =>
        LET lt == report.test_metrics.longest_tests
            st == report.test_metrics.shortest_tests
            n == Len(Tests)
            m == IF n < TopN THEN n ELSE TopN
        IN  /\ Len(lt) = m
            /\ Len(st) = m
            /\ NonIncreasingDuration(lt)
            /\ NonIncreasingDuration(st)
            /\ \A k \in 1..Len(lt) :
                  EntriesWith(lt, lt[k].duration) <= TestsWith(lt[k].duration)
            /\ \A k \in 1..Len(st) :
                  EntriesWith(st, st[k].duration) <= TestsWith(st[k].duration)
            /\ \A i \in 1..n : \A k \in 1..Len(lt) :
                  DurationOf(Tests[i]).n > lt[k].duration.n =>
                      EntriesWith(lt, DurationOf(Tests[i]))
                          = TestsWith(DurationOf(Tests[i]))
            /\ \A i \in 1..n : \A k \in 1..Len(st) :
                  DurationOf(Tests[i]).n < st[k].duration.n =>
                      EntriesWith(st, DurationOf(Tests[i]))
                          = TestsWith(DurationOf(Tests[i]))

---------------------------------------------------------------------------
(* Properties of the junit.xml fallback.                                   *)

\* every section of the report dictionary has been computed
ReportBuilt == pc \in {"write_json", "write_html", "done"}

\* junit.xml parses, has a <testsuite> at the root or below it, and each of
\* its five attributes is missing or a numeral
ValidJunit(x) ==
    /\ x.exists /\ x.parses
    /\ x.root = "testsuite" \/ x.child
    /\ \A a \in {x.tests, x.failures, x.errors, x.skipped, x.time} :
          a.t \in {"absent", "num"}

\* the value of a <testsuite> attribute, 0 when it is missing
Attr(a) == IF a.t = "num" THEN a.n ELSE 0

\* C16: with only junit.xml present, the summary takes tests, failures,
\* errors, skipped and time from <testsuite>, passed is tests - failures -
\* errors - skipped, pass_rate is the hundredth of a percent nearest to
\* passed / tests * 100 (0 when tests = 0), and categories, longest and
\* shortest tests, performance metrics and the failure lists are empty.
C16_JunitFallback ==
    (ReportBuilt /\ ~jsonFile.exists /\ ValidJunit(junitFile)) =>
        LET s == report.execution_summary
            tests == Attr(junitFile.tests)
            passed == tests - Attr(junitFile.failures)
                          - Attr(junitFile.errors) - Attr(junitFile.skipped)
        IN  /\ s.total_tests = Num(tests)
            /\ s.failed = Num(Attr(junitFile.failures))
            /\ s.errors = Num(Attr(junitFile.errors))
            /\ s.skipped = Num(Attr(junitFile.skipped))
            /\ s.execution_time = Num(Attr(junitFile.time))
            /\ s.passed = Num(passed)
            /\ tests > 0 => 2 * Abs(s.pass_rate * tests - 10000 * passed) <= tests
            /\ tests = 0 => s.pass_rate = 0
            /\ report.test_metrics.categories = <<>>
            /\ report.test_metrics.longest_tests = <<>>
            /\ report.test_metrics.shortest_tests = <<>>
            /\ ~report.performance_metrics.present
            /\ report.failure_analysis.failed_tests = <<>>
            /\ report.failure_analysis.common_errors = <<>>

\* C16 witness: a wrapper root whose <testsuite> child has tests = 3,
\* failures = 1, time = 12.3 gives passed = 2 and pass_rate = 66.67
C16_Witness ==
    /\ Returned
    /\ ~jsonFile.exists
    /\ junitFile.root = "testsuites" /\ junitFile.child
    /\ junitFile.tests = Num(3) /\ junitFile.failures = Num(1)
    /\ report.execution_summary.total_tests = Num(3)
    /\ report.execution_summary.passed = Num(2)
    /\ report.execution_summary.pass_rate = 6667
    /\ report.execution_summary.execution_time = Num(12300)

---------------------------------------------------------------------------
(* Properties of the output files and of the callers.                      *)

\* C17: the HTML summary is written only by the step that follows the
\* completed write of the JSON report; when that step is taken the JSON
\* report holds the report of the current run, and the step leaves it in
\* place whether the HTML step fails or not.  Nothing but the JSON write
\* itself changes the JSON report.
C17_JsonBeforeHtml ==
    [][ /\ outHtml' # outHtml => pc = "write_html"
        /\ outJson' # outJson => pc = "write_json"
        /\ pc = "write_html" =>
              /\ outJson = <<JsonDump(report)>>
              /\ outJson' = outJson ]_vars

\* C17 witness: the JSON report was written, the write of the HTML summary
\* failed, and the JSON report of this run is in place
C17_Witness ==
    /\ pc = "done" /\ raised
    /\ jsonFile.exists /\ jsonFile.parses
    /\ disk.json = "ok" /\ disk.html = "full"
    /\ outHtml = <<Truncated>>
    /\ outJson = <<JsonDump(report)>>
    /\ outJson # <<StaleJson>>

\* the write of an output file was attempted in this call and failed
WriteFailed ==
    /\ pc \in {"done", "finished"}
    /\ \/ disk.json # "ok"
       \/ disk.html # "ok" /\ ~HtmlRaises(report)

\* C18: when the write of the JSON report or of the HTML summary fails,
\* generate_comprehensive_report, called by generate_test_execution_report,
\* still returns to its caller: no exception leaves it.
C18_WriteFailureReturns ==
    (WriteFailed /\ caller = "wrapper") => ~raised

\* C19: the HTML summary shows the placeholder 'No test failures detected!'
\* only when the summary counts zero failed tests.
C19_FailurePlaceholder ==
    (pc = "done" /\ ~raised /\ outHtml # <<>>) =>
        (outHtml[1].failures.placeholder = "No test failures detected!" =>
            report.execution_summary.failed = Num(0))

\* the labels of the six statistics lines
StatisticsLabels ==
    {"Total Tests", "Passed", "Failed", "Skipped", "Pass Rate", "Duration"}

\* C20: when the session-finish hook or generate_test_execution_report has
\* ended, the console holds the six statistics lines.
C20_SummaryPrinted ==
    pc = "finished" =>
        StatisticsLabels \subseteq {console[i].line : i \in 1..Len(console)}

---------------------------------------------------------------------------
(* Properties of the reads of the input artifacts.                         *)

\* C21: during one call of generate_comprehensive_report each input
\* artifact is opened at most once.
C21_ReadAtMostOnce == reads.json <= 1 /\ reads.junit <= 1

---------------------------------------------------------------------------
(* Properties of repeated calls.                                           *)

\* the four sections of a report that are computed from the artifacts
Sections(r) ==
    <<r.execution_summary, r.test_metrics, r.performance_metrics,
      r.failure_analysis>>

\* C22: over unchanged input artifacts, every call that returns a report
\* returns the same execution_summary, test_metrics, performance_metrics
\* and failure_analysis as every earlier call, whatever output files the
\* earlier calls have left in the reports directory.
C22_NoStateAcrossCalls ==
    (pc = "done" /\ ~raised) =>
        \A i \in 1..Len(returned) : Sections(returned[i]) = Sections(report)

\* C22 witness: a second call has returned, over an artifact with a failed
\* test, after the first call created the JSON report
C22_Witness ==
    /\ pc = "done" /\ ~raised
    /\ Len(returned) >= 1
    /\ report.failure_analysis.failed_tests # <<>>
    /\ report.test_metrics.categories # <<>>
    /\ outJson = <<JsonDump(report)>>

\* C23: two reports over the same artifacts, one built with the CI variable
\* set and one without, differ at most in framework_info.environment,
\* which is 'CI/CD' with the variable set and 'Local' without.
C23_EnvironmentLabelOnly ==
    /\ (pc = "done" /\ ~raised) =>
          \A i \in 1..Len(returned) :
              [returned[i] EXCEPT !.framework_info.environment = "Local"]
                  = [report EXCEPT !.framework_info.environment = "Local"]
    /\ pc \in {"write_json", "write_html"} =>
          report.framework_info.environment = IF ci THEN "CI/CD" ELSE "Local"

\* C23 witness: a report built with the CI variable set follows one built
\* without it, over an artifact with a failed test
C23_Witness ==
    /\ pc = "done" /\ ~raised /\ ci
    /\ Len(returned) >= 1
    /\ returned[1].framework_info.environment = "Local"
    /\ report.framework_info.environment = "CI/CD"
    /\ report.failure_analysis.failed_tests # <<>>

\* C24: no step changes test_results.json or junit.xml; an output file
\* changes only in its own write step, and then it holds the content of the
\* current run and nothing else; when a call returns, both output files hold
\* the content of the returned report.
C24_FrameEffect ==
    [][ /\ jsonFile' = jsonFile
        /\ junitFile' = junitFile
        /\ outJson' # outJson =>
              pc = "write_json" /\ outJson' = <<JsonDump(report)>>
        /\ outHtml' # outHtml =>
              pc = "write_html" /\ outHtml' = <<HtmlContent(report)>>
        /\ (pc' = "done" /\ ~raised') =>
              /\ outJson' = <<JsonDump(report')>>
              /\ outHtml' = <<HtmlContent(report')>> ]_vars

\* C24 witness: a call has replaced both output files of an earlier call
\* whose report was a different one
C24_Witness ==
    /\ pc = "done" /\ ~raised
    /\ Len(returned) >= 1
    /\ returned[1] # report
    /\ outJson = <<JsonDump(report)>>
    /\ outHtml = <<HtmlContent(report)>>
    /\ jsonFile.exists

---------------------------------------------------------------------------
(* Artifacts with missing fields.                                          *)

\* test records that lack the nodeid, the outcome, the duration, the call
\* section, the longrepr, or all of them, and one that lacks nothing
SparseMenu ==
    { Test(Absent, Outcome("passed"), Num(100), NoCall),
      Test(Login("t1"), Absent, Num(110), NoCall),
      Test(Login("t2"), Outcome("passed"), Absent, NoCall),
      Test(Cart("t1"), Outcome("failed"), Num(120), NoCall),
      Test(Cart("t2"), Outcome("failed"), Num(130), Call(Absent)),
      Test(Cart("t3"), Outcome("failed"), Num(140), Call(Str(S("E")))),
      Test(Absent, Absent, Absent, NoCall) }

\* summary objects that lack any of their five counts
SparseSummaries ==
    {NoSummary} \cup
    [t : {"obj"}, total : {Absent, Num(2)}, passed : {Absent, Num(1)},
     failed : FlagValues, skipped : FlagValues, error : FlagValues]

\* test_results.json is a JSON object with fields missing: the summary and
\* the duration vary over a tests array of at most one record, the records
\* vary without a summary
InitSparse ==
    /\ jsonFile \in
          {JsonObject(s, d, t) :
              s \in SparseSummaries, d \in {Absent, Num(42500)},
              t \in {NoTests} \cup {TestList(ts) : ts \in SeqsUpTo(SparseMenu, 1)}}
          \cup
          {JsonObject(NoSummary, d, TestList(ts)) :
              d \in {Absent, Num(42500)}, ts \in SeqsUpTo(SparseMenu, MaxTests)}
    /\ junitFile = NoJunit
    /\ InitReporter

SpecSparse == InitSparse /\ [][Next]_vars

\* C25: a JSON object artifact with fields missing is processed without an
\* exception: the call returns, every missing count and a missing duration
\* are reported as 0, a missing tests array gives the empty analysis, and
\* with records that lack fields no analysis is discarded: every test with
\* a separator is counted in a category, every failed test is listed, and
\* the performance metrics cover every record.
C25_MissingFieldsAccepted ==
    pc = "done" =>
        /\ ~raised
        /\ jsonFile.summary.total = Absent =>
              report.execution_summary.total_tests = Num(0)
        /\ jsonFile.summary.passed = Absent =>
              report.execution_summary.passed = Num(0)
        /\ jsonFile.summary.failed = Absent =>
              report.execution_summary.failed = Num(0)
        /\ jsonFile.summary.skipped = Absent =>
              report.execution_summary.skipped = Num(0)
        /\ jsonFile.summary.error = Absent =>
              report.execution_summary.errors = Num(0)
        /\ jsonFile.duration = Absent =>
              report.execution_summary.execution_time = Num(0)
        /\ jsonFile.tests.t = "absent" =>
              /\ report.test_metrics = EmptyMetrics
              /\ report.performance_metrics = NoPerformance
              /\ report.failure_analysis = NoFailures
        /\ SumTotals(report.test_metrics.categories)
              = Cardinality({i \in 1..Len(Tests) : HasSeparator(Tests[i])})
        /\ Len(report.failure_analysis.failed_tests)
              = Cardinality({i \in 1..Len(Tests) : IsFailed(Tests[i])})
        /\ report.performance_metrics.n = Len(Tests)

\* the same, for artifacts in which every test with a separator has an
\* outcome
C25_OutcomePresent ==
    (\A i \in 1..Len(Tests) : HasSeparator(Tests[i]) => Tests[i].outcome # Absent)
        => C25_MissingFieldsAccepted

---------------------------------------------------------------------------
(* Reading comprehensive_test_report.json back.                            *)

DigitValue(c) == CHOOSE d \in 0..9 : DigitChars[d + 1] = c

RECURSIVE ParseDigits(_, _)
\* the number a sequence of digit runs denotes, acc the value read so far
ParseDigits(acc, text) ==
    IF Len(text) = 0 THEN acc
    ELSE IF text[1].n = 0 THEN ParseDigits(acc, Tail(text))
    ELSE ParseDigits(acc * 10 + DigitValue(text[1].c),
                     <<Run(text[1].c, text[1].n - 1)>> \o Tail(text))

ParseNumeral(text) ==
    IF Len(text) > 0 /\ text[1].c = "-"
    THEN 0 - ParseDigits(0, Tail(text))
    ELSE ParseDigits(0, text)

\* json.load of one literal
JsonLoadLiteral(l) ==
    IF l.kind = "number" THEN Num(ParseNumeral(l.text))
    ELSE IF l.kind = "string" THEN Str(l.text)
    ELSE Null

\* the fields of the execution summary the round trip is about
SummaryFields(summary) ==
    <<summary.total_tests, summary.passed, summary.failed, summary.skipped,
      summary.errors, Num(summary.pass_rate), summary.execution_time>>

\* json.load of the execution_summary of the written file
LoadedSummary(file) ==
    <<JsonLoadLiteral(file.execution_summary.total_tests),
      JsonLoadLiteral(file.execution_summary.passed),
      JsonLoadLiteral(file.execution_summary.failed),
      JsonLoadLiteral(file.execution_summary.skipped),
      JsonLoadLiteral(file.execution_summary.errors),
      JsonLoadLiteral(file.execution_summary.pass_rate),
      JsonLoadLiteral(file.execution_summary.execution_time)>>

\* C26: when the call has returned, comprehensive_test_report.json read back
\* gives the seven statistics of the returned report, and a statistic that
\* is a number in the report is a bare numeral in the file.
C26_RoundTrip ==
    (pc = "done" /\ ~raised) =>
        /\ Len(outJson) = 1
        /\ LoadedSummary(outJson[1]) = SummaryFields(report.execution_summary)
        /\ \A k \in 1..7 :
              IsNum(SummaryFields(report.execution_summary)[k])
                  => IsNum(LoadedSummary(outJson[1])[k])

\* C26 witness: a returned report with counts, a rounded pass rate and an
\* execution time of several digits has been written
C26_Witness ==
    /\ pc = "done" /\ ~raised
    /\ Len(outJson) = 1
    /\ report.execution_summary.total_tests = Num(3)
    /\ report.execution_summary.passed = Num(2)
    /\ report.execution_summary.pass_rate = 6667
    /\ report.execution_summary.execution_time = Num(42500)
    /\ outJson[1].execution_summary.pass_rate.text = Atoms(<<"6", "6", "6", "7">>)

---------------------------------------------------------------------------
(* Properties of the session-finish hook.                                  *)

\* C27: no exception of the report generation leaves pytest_sessionfinish:
\* the hook always returns normally, and when the call or the printing of
\* the statistics raised, the failure line is on the console.
C27_HookNeverPropagates ==
    caller = "hook" =>
        /\ pc # "escaped"
        /\ (pc = "finished" /\ raised) => console = <<FailureLine>>

\* the same on a console that encodes every character
C27_Utf8Console == stdout = "utf8" => C27_HookNeverPropagates

\* an exception of generate_comprehensive_report has been caught by the
\* hook on a console that encodes every character
C27_Caught ==
    /\ caller = "hook" /\ pc = "finished" /\ raised
    /\ stdout = "utf8" /\ console = <<FailureLine>>

---------------------------------------------------------------------------
(* Properties of the performance metrics.                                  *)

\* the performance metrics have been computed
PerformanceDone == pc \notin {"idle", "summary", "metrics", "performance"}

\* every entry of the tests array is an object whose duration is a number
\* or missing
NumericDurations ==
    \A i \in 1..Len(Tests) :
        Tests[i].isObj /\ Tests[i].duration.t \in {"absent", "num"}

\* C28: the performance metrics are empty exactly when test_results.json
\* is absent, does not parse or has no tests; otherwise they cover the
\* durations of all n tests: total is their sum, avg = total / n,
\* min <= avg <= max, and tests_per_minute = n / (total / 60) when
\* total > 0 and 0 otherwise.
C28_PerformanceMetrics ==
    PerformanceDone =>
        LET m == report.performance_metrics
            durations == [i \in 1..Len(Tests) |-> DurationOf(Tests[i]).n]
            total == SumSeq(Durations(Tests))
        IN  /\ ~m.present <=>
                  (~jsonFile.exists \/ ~jsonFile.parses \/ Len(Tests) = 0)
            /\ m.present =>
                  /\ m.n = Len(Tests)
                  /\ m.total_execution_time = total
                  /\ m.avg_test_duration = Frac(total, m.n)
                  /\ m.min_test_duration * m.n <= total
                  /\ total <= m.max_test_duration * m.n
                  /\ \A i \in 1..Len(Tests) :
                        /\ m.min_test_duration <= durations[i]
                        /\ durations[i] <= m.max_test_duration
                  /\ m.tests_per_minute =
                        IF total > 0 THEN Frac(m.n * 60000, total)
                        ELSE Frac(0, 1)

\* the same, for tests arrays whose durations are numbers
C28_NumericOnly == NumericDurations => C28_PerformanceMetrics

---------------------------------------------------------------------------
(* The test runner rewrites test_results.json while a report is built.     *)

\* the contents test_results.json takes: missing, the results of a session
\* of three tests, and the results of a session of one test
Versions ==
    {NoJson,
     JsonObject(SessionSummary, Num(42500), SessionTests),
     JsonObject([t |-> "obj", total |-> Num(1), passed |-> Num(1),
                 failed |-> Num(0), skipped |-> Absent, error |-> Absent],
                Num(1500),
                TestList(<<Test(Cart("t2"), Outcome("passed"), Num(150), NoCall)>>))}

\* the runner replaces or deletes test_results.json between two of the
\* reads at lines 74-85, 151-155, 222-226 and 251-255
RunnerReplaces ==
    /\ pc \in {"summary", "metrics", "performance", "failures"}
    /\ jsonFile' \in Versions \ {jsonFile}
    /\ UNCHANGED <<junitFile, ci, pc, report, outJson, outHtml, raised, reads,
                   disk, caller, console, returned, stdout, firefox>>

NextSnapshot ==
    \/ CallReport
    \/ GetExecutionSummary
    \/ AnalyzeTestResults
    \/ GetPerformanceMetrics
    \/ AnalyzeFailures
    \/ GetFrameworkInfo
    \/ WriteJsonReport
    \/ GenerateHtmlSummaryReport
    \/ RunnerReplaces

InitSnapshot ==
    /\ jsonFile \in Versions
    /\ junitFile \in {NoJunit,
                      Junit("testsuite", FALSE, Num(3), Num(1), Num(0), Num(0),
                            Num(12300))}
    /\ InitReporter

SpecSnapshot == InitSnapshot /\ [][NextSnapshot]_vars

\* the four sections are those of one content v of test_results.json
FromVersion(r, v) ==
    /\ r.execution_summary = _get_execution_summary(v, junitFile)
    /\ r.test_metrics = _analyze_test_results(v)
    /\ r.performance_metrics = _get_performance_metrics(v)
    /\ r.failure_analysis = _analyze_failures(v)

\* C29: the four sections of a report are derived from one content of
\* test_results.json, also when the runner replaces or deletes the file
\* during the call.
C29_SnapshotConsistency ==
    ReportBuilt => \E v \in Versions : FromVersion(report, v)

---------------------------------------------------------------------------
(* Properties of the Firefox driver creation.                              *)

\* _create_firefox_browser is called with either headless flag and one of
\* two window sizes, with or without the CI variable; no report is built
InitFirefox ==
    /\ firefox \in {FirefoxIdle(h, w) :
                      h \in BOOLEAN, w \in {<<1920, 1080>>, <<1366, 768>>}}
    /\ ci \in BOOLEAN
    /\ jsonFile = NoJson
    /\ junitFile = NoJunit
    /\ pc = "idle"
    /\ report = BlankReport
    /\ outJson = <<>>
    /\ outHtml = <<>>
    /\ raised = FALSE
    /\ reads = NoReads
    /\ disk = Writable
    /\ caller = "none"
    /\ console = <<>>
    /\ returned = <<>>
    /\ stdout = "utf8"

SpecFirefox == InitFirefox /\ [][NextFirefox]_vars

\* the constructor calls so far, and those that raised
Calls == {i \in 1..Len(firefox.events) : firefox.events[i].ev = "call"}
Failures == {i \in Calls : firefox.events[i].result # "ok"}

\* the function has been left, by return or by an exception
FirefoxEnded == firefox.pc \in {"returned", "raised"}

\* C30: the constructor is called at most 3 times; nothing follows a
\* successful call; every wait follows a failed call, is not preceded by
\* three failures, and is followed by the next call; when three calls have
\* failed the exception of the third one leaves the function; the steps
\* after the loop are reached only with a driver.
C30_FirefoxRetry ==
    LET ev == firefox.events
    IN  /\ Cardinality(Calls) <= MaxRetries
        /\ \A i \in Calls : ev[i].result = "ok" => i = Len(ev)
        /\ \A i \in 1..Len(ev) :
              ev[i].ev = "wait" =>
                 /\ i > 1 /\ (i - 1) \in Failures
                 /\ Cardinality({j \in Failures : j < i}) < MaxRetries
                 /\ i < Len(ev) => (i + 1) \in Calls
                 /\ i = Len(ev) => firefox.pc = "attempt"
        /\ (FirefoxEnded /\ Cardinality(Failures) = MaxRetries) =>
              /\ firefox.pc = "raised"
              /\ firefox.e = [kind |-> ev[Len(ev)].result, attempt |-> MaxRetries]
        /\ firefox.pc \in {"timeouts", "maximize", "returned"} =>
              firefox.driver # "None"

\* C30 witness: two calls failed, each followed by a wait, and the third
\* call gave the driver
C30_Witness ==
    /\ firefox.pc = "returned"
    /\ firefox.driver = "driver"
    /\ Cardinality(Calls) = MaxRetries
    /\ Cardinality(Failures) = MaxRetries - 1
    /\ Len(firefox.events) = 2 * MaxRetries - 1

\* three calls failed with different exceptions and the last one has left
\* the function
C30_AllFailed ==
    /\ firefox.pc = "raised"
    /\ Cardinality(Failures) = MaxRetries
    /\ firefox.events[1].result # firefox.e.kind
    /\ firefox.e.attempt = MaxRetries

===========================================================================
